---- MODULE Spec2Model ----
(***************************************************************************)
(* State-machine model of the warehouse <-> ALM tracker synchronization    *)
(* core of H2S-GenAi:                                                      *)
(*   - bigquery_to_jira/main.py : create_alm_requirement, create_alm_defect*)
(*     (the Remote Reference Lifecycle, "syncRequirement" / "syncIssue")   *)
(*   - jira_to_bigquery/main.py : handle_issue_sync (the Upsert Resolver)  *)
(*   - backend/test.py          : the intake path and the materializer     *)
(*   - backend/core/workflow.py : the outbound publisher                   *)
(* Four specifications share the variables: SpecLifecycle, SpecUpsert,     *)
(* SpecIntake and SpecPublisher.  Each one leaves the other subsystems'    *)
(* variables alone.                                                        *)
(***************************************************************************)
EXTENDS Integers, Sequences, FiniteSets, TLC

VARIABLES
    reqTbl,     \* warehouse table Requirement: req_id -> row | NoRow
    tcTbl,      \* warehouse table TestCase:    test_id -> row | NoRow
    issueTbl,   \* warehouse table Issue:       issue_id -> row | NoRow
    jira,       \* remote tracker: key -> record | Absent
    jiraNext,   \* remote tracker: the next key the tracker will assign
    jiraLinks,  \* remote tracker: set of <<inwardIssue, outwardIssue>> links
    last,       \* what the most recent handler invocation did (its log)
    hist,       \* history: were all deliveries so far failure-free, and has
                \* each entity had no delivery, one, or more than one
    syncs,      \* handler invocations of bigquery_to_jira in flight, when
                \* their steps interleave: invocation -> [pc, kind, id, ...]
    sweep       \* the call of update_jira_from_test_results in progress or
                \* returned last: [pc, issue_ids, created_defects, ...]

VARIABLES
    issuesTbl,  \* warehouse table issues (jira_to_bigquery): a list of rows
    hooks,      \* webhook invocations in flight: invocation -> [pc, ev]
    topic,      \* messages published to the Pub/Sub topic jira-updates
    hookLast,   \* the response of the webhook invocation that ended last
    merged,     \* history: remote key -> the fields merged last, or "none"
    redo        \* history of deliveries made one after another: the event
                \* whose publish failed and is not yet published, whether
                \* the invocation in flight handles that event again, and
                \* whether the invocation that ended last did

VARIABLES
    complianceTbl, \* warehouse table Compliance: the list of its rows
    publisher,     \* core/workflow.py's module-level Pub/Sub client or None
    channel,       \* messages published by the backend: set of [topic, id]
    flow           \* what the most recent backend call did (its log)

lifecycleVars == <<reqTbl, tcTbl, issueTbl, jira, jiraNext, jiraLinks, last, hist, syncs, sweep>>
upsertVars == <<issuesTbl, hooks, topic, hookLast, merged, redo>>
intakeVars == <<complianceTbl, publisher, channel, flow>>
trackerVars == <<jira, jiraNext, jiraLinks, last, hist, syncs, sweep>>
vars == <<lifecycleVars, upsertVars, intakeVars>>

----------------------------------------------------------------------------
(* Bounds of the model *)

NumReqs == 1
NumIssues == 1
MaxKeys == 2
NumRemoteKeys == 1
MaxRows == 2
NumTests == 2
MaxIds == 2

\* Python's None / SQL NULL in a nullable column
NULL == 0

ReqIds == 1..NumReqs
IssueIds == 1..NumIssues
TestIds == 1..NumIssues
Keys == 1..MaxKeys
\* the value of datetime.utcnow().isoformat(): some timestamp
Stamp == "utcnow"
\* a NULL timestamp column
NoStamp == "null"

\* an id that names no row of the warehouse
GhostId == NumReqs + NumIssues + 1

NoRow == [absent |-> TRUE]
Absent == [absent |-> TRUE]

\* outcomes of one HTTP request as the requests library reports them, apart
\* from what the tracker's own state decides (200 / 404): no fault, a 4xx
\* status other than 404, or a transient fault (a 5xx status or a network
\* error; the code handles both alike, as an exception)
Faults == {"ok", "http4xx", "transient"}
\* outcomes of POST /rest/api/3/issue: "ok" = created, key in the reply;
\* "nokey" = created, reply without "key"; "timeout" = created, reply lost
PostOutcomes == Faults \cup {"nokey", "timeout"}

\* the log of a state in which no handler has just run
NoRunLog == [handler |-> "none", id |-> NULL, pre |-> NULL, preTs |-> NoStamp,
             calls |-> <<>>, created |-> FALSE, newKey |-> NULL, gotKey |-> NULL,
             write |-> "none", ret |-> NULL, raised |-> FALSE, http |-> "none"]

\* two invocations of the bigquery_to_jira handlers may be in flight at once
Syncs == {"s1", "s2"}
\* an invocation that has not started or has returned
IdleSync == [pc |-> "idle", kind |-> "none", id |-> NULL, key |-> NULL,
             alm_id |-> NULL, got |-> NULL]
NoSyncs == [p \in Syncs |-> IdleSync]
\* no call of the bulk endpoint has been made
NoSweep == [pc |-> "idle", explicit |-> FALSE, issue_ids |-> <<>>,
            created_defects |-> <<>>, count |-> 0, http |-> "none",
            \* history of the call: remote defects the tracker created,
            \* those of them whose key did not come back, ids passed over
            made |-> 0, lost |-> 0, skipped |-> 0]

----------------------------------------------------------------------------
(* Warehouse and tracker accessors *)

ReqRow(req_id) == IF req_id \in ReqIds THEN reqTbl[req_id] ELSE NoRow
TcRow(test_id) == IF test_id \in TestIds THEN tcTbl[test_id] ELSE NoRow
IssueRow(issue_id) == IF issue_id \in IssueIds THEN issueTbl[issue_id] ELSE NoRow

\* the tracker holds a record under key (issued and not deleted since)
JiraExists(key) == key \in Keys /\ jira[key] # Absent /\ jira[key].live

CallLog(op, key, status) == [op |-> op, key |-> key, status |-> status]

\* status of a request that names an existing key: the transport fault if
\* there is one, else 404 when the tracker holds no such record, else 200
ByKeyStatus(key, fault) ==
    IF fault # "ok" THEN fault
    ELSE IF JiraExists(key) THEN "200" ELSE "404"

\* POST /rest/api/3/issue: did the tracker create the record, does
\* raise_for_status / the request raise, and which key does the reply carry
PostCreated(post) == post \in {"ok", "nokey", "timeout"}
PostRaises(post) == post \in {"http4xx", "transient", "timeout"}
PostStatus(post) == IF post \in {"ok", "nokey"} THEN "201" ELSE post
ReplyKey(post) == IF post = "ok" THEN jiraNext ELSE NULL

----------------------------------------------------------------------------
(* bigquery_to_jira/main.py: Requirement <-> remote Story *)

\* get_requirement_details: the row of req_id, or None
get_requirement_details(req_id) == ReqRow(req_id)

\* line 556, "if alm_id:": the row carries a remote key
HasAlmId_never(alm_id) == FALSE
HasAlmId(alm_id) == alm_id # NULL

\* line 562, "if response.status_code == 404": the stored key is stale
IsStale_never(status) == FALSE
IsStale_anyError(status) == status # "200"
IsStale(status) == status = "404"

\* lines 55 and 474, "if not issue_id:" / "if not req_id:": the decoded
\* message names no id
MissingId_never(id) == FALSE
MissingId(id) == id = NULL

\* The effect of create_or_update_requirement_in_jira(req_id, batch_update)
\* given the outcomes of its remote calls and of its warehouse write:
\*   ret     the function's return value (a key, or NULL for None)
\*   calls   the remote calls it made, in order
\*   created whether the tracker created a record
\*   gotKey  new_alm_id, the key read from the create reply
\*   write   "ok" when the UPDATE of alm_id was applied, "failed" when it
\*           raised, "none" when it was not attempted
create_or_update_requirement_in_jira(req_id, batch_update, put, post, bqOk) ==
    LET row == get_requirement_details(req_id)
        none == [ret |-> NULL, calls |-> <<>>, created |-> FALSE,
                 gotKey |-> NULL, write |-> "none"]
    IN  IF row = NoRow THEN none
        ELSE
        LET alm_id == row.alm_id
            putStatus == IF HasAlmId(alm_id) THEN ByKeyStatus(alm_id, put) ELSE "skip"
            putCalls == IF HasAlmId(alm_id) THEN <<CallLog("PUT", alm_id, putStatus)>>
                        ELSE <<>>
        IN  IF putStatus = "200"
            THEN [none EXCEPT !.ret = alm_id, !.calls = putCalls]
            ELSE IF putStatus # "skip" /\ ~IsStale(putStatus)
            THEN \* raise_for_status / requests raised: caught at line 598
                 [none EXCEPT !.calls = putCalls]
            ELSE \* alm_id is None, initially or after the 404: create
            LET calls == Append(putCalls, CallLog("POST", NULL, PostStatus(post)))
                new_alm_id == ReplyKey(post)
            IN  IF PostRaises(post)
                THEN [none EXCEPT !.calls = calls, !.created = PostCreated(post)]
                ELSE IF batch_update
                THEN [ret |-> new_alm_id, calls |-> calls, created |-> TRUE,
                      gotKey |-> new_alm_id, write |-> "none"]
                ELSE IF bqOk
                THEN [ret |-> new_alm_id, calls |-> calls, created |-> TRUE,
                      gotKey |-> new_alm_id, write |-> "ok"]
                ELSE \* the UPDATE raised: caught at line 598, returns None
                     [ret |-> NULL, calls |-> calls, created |-> TRUE,
                      gotKey |-> new_alm_id, write |-> "failed"]

\* Pub/Sub envelopes of the requirement-updates topic as the handler sees
\* them: without a data field, with data but no req_id, or naming a req_id
ReqEnvelopes ==
    {[data |-> FALSE, id |-> NULL]} \cup
    {[data |-> TRUE, id |-> r] : r \in {NULL, GhostId} \cup ReqIds}

ReqKeyOf(req_id) == IF ReqRow(req_id) = NoRow THEN NULL ELSE ReqRow(req_id).alm_id

\* The tracker and the Requirement table after the effect e of a sync of req_id
ApplyRequirementEffect(req_id, e) ==
    /\ jira' = IF e.created
               THEN [jira EXCEPT ![jiraNext] = [issuetype |-> "Story", local |-> req_id, live |-> TRUE]]
               ELSE jira
    /\ jiraNext' = IF e.created THEN jiraNext + 1 ELSE jiraNext
    /\ reqTbl' = IF e.write = "ok"
                 THEN [reqTbl EXCEPT ![req_id].alm_id = e.gotKey]
                 ELSE reqTbl

\* create_alm_requirement(cloud_event): one delivery of an envelope
create_alm_requirement(env, getOk, put, post, bqOk) ==
    /\ LET base == [handler |-> "create_alm_requirement", id |-> env.id,
                    pre |-> ReqKeyOf(env.id), preTs |-> NoStamp, calls |-> <<>>,
                    created |-> FALSE, newKey |-> NULL, gotKey |-> NULL,
                    write |-> "none", ret |-> NULL, raised |-> FALSE,
                    http |-> "none"]
       IN  IF ~env.data
           THEN /\ last' = [base EXCEPT !.http = "200"]
                /\ UNCHANGED <<reqTbl, jira, jiraNext>>
           ELSE IF MissingId(env.id)
           THEN /\ last' = [base EXCEPT !.http = "400"]
                /\ UNCHANGED <<reqTbl, jira, jiraNext>>
           ELSE IF ~getOk
           THEN \* the query of get_requirement_details raised (line 514 is
                \* outside the try of create_or_update...): re-raised at 486
                /\ last' = [base EXCEPT !.raised = TRUE]
                /\ UNCHANGED <<reqTbl, jira, jiraNext>>
           ELSE LET e == create_or_update_requirement_in_jira(env.id, FALSE, put, post, bqOk)
                IN  /\ ApplyRequirementEffect(env.id, e)
                    /\ last' = [base EXCEPT !.calls = e.calls, !.created = e.created,
                                            !.newKey = IF e.created THEN jiraNext ELSE NULL,
                                            !.gotKey = e.gotKey, !.write = e.write,
                                            !.ret = e.ret]
    /\ last'.created => jiraNext <= MaxKeys    \* the model's bound on keys
    /\ UNCHANGED <<tcTbl, issueTbl, jiraLinks>>

----------------------------------------------------------------------------
(* bigquery_to_jira/main.py: Issue <-> remote Bug *)

\* get_issue_details: Issue JOIN TestCase JOIN Requirement for issue_id;
\* the first joined row with the parent requirement's alm_id, or None
get_issue_details(issue_id) ==
    LET i == IssueRow(issue_id)
        tc == IF i = NoRow THEN NoRow ELSE TcRow(i.test_id)
        r == IF tc = NoRow THEN NoRow ELSE ReqRow(tc.req_id)
    IN  IF r = NoRow THEN NoRow
        ELSE [issue_id |-> issue_id, test_id |-> i.test_id,
              jira_defect_key |-> i.jira_defect_key,
              req_id |-> tc.req_id, alm_id |-> r.alm_id]

\* _build_jira_description_adf(issue_details) takes one parameter; the call
\* at line 224 passes is_update=True as well, which Python rejects with a
\* TypeError
AdfAcceptsIsUpdate == FALSE

\* update_defect_in_jira(defect_key, issue_details): the existence check
\* (GET), then the update (PUT) and the comment (POST); returns
\* [ret, calls].  The TypeError of line 224 and every request error are
\* caught by the function's own except clauses, which return False.
update_defect_in_jira(defect_key, chk, put) ==
    LET chkStatus == ByKeyStatus(defect_key, chk)
        chkCalls == <<CallLog("GET", defect_key, chkStatus)>>
    IN  IF chkStatus # "200"
        THEN [ret |-> FALSE, calls |-> chkCalls]
        ELSE IF ~AdfAcceptsIsUpdate
        THEN [ret |-> FALSE, calls |-> chkCalls]
        ELSE LET putStatus == ByKeyStatus(defect_key, put)
                 putCalls == Append(chkCalls, CallLog("PUT", defect_key, putStatus))
             IN  IF putStatus # "200"
                 THEN [ret |-> FALSE, calls |-> putCalls]
                 ELSE [ret |-> TRUE,
                       calls |-> Append(putCalls, CallLog("COMMENT", defect_key, "201"))]

\* link_issues(defect_key, requirement_key): POST /issueLink; the status of
\* the request
link_issues(requirement_key, link) ==
    IF link # "ok" THEN link
    ELSE IF JiraExists(requirement_key) THEN "201" ELSE "404"

\* lines 371-372: link_issues catches every exception of its request and
\* of raise_for_status, so no link status makes it raise
LinkRaises_uncaught(status) == status # "201"
LinkRaises(status) == FALSE

\* line 188, "if issue_details.get('alm_id') and defect_key:"
ShouldLink_always(alm_id, defect_key) == TRUE
ShouldLink(alm_id, defect_key) == alm_id # NULL /\ defect_key # NULL

\* create_defect_in_jira(issue_details): POST the Bug, then link it to the
\* parent requirement's remote key when there is one; returns
\* [ret (defect_key or NULL), calls, created, linked]
create_defect_in_jira(details, post, link) ==
    LET postCalls == <<CallLog("POST", NULL, PostStatus(post))>>
        defect_key == ReplyKey(post)
    IN  IF PostRaises(post)
        THEN [ret |-> NULL, calls |-> postCalls, created |-> PostCreated(post),
              linked |-> FALSE]
        ELSE IF ShouldLink(details.alm_id, defect_key)
        THEN LET st == link_issues(details.alm_id, link)
                 calls == Append(postCalls, CallLog("LINK", details.alm_id, st))
             IN  IF LinkRaises(st)
                 THEN \* would be caught at line 195: return None
                      [ret |-> NULL, calls |-> calls, created |-> TRUE, linked |-> FALSE]
                 ELSE [ret |-> defect_key, calls |-> calls,
                       created |-> TRUE, linked |-> (st = "201")]
        ELSE [ret |-> defect_key, calls |-> postCalls, created |-> TRUE,
              linked |-> FALSE]

\* update_issue_with_defect(issue_id, defect_key): the Issue table after
\* the UPDATE of jira_defect_key and jira_defect_created_ts; a failure of
\* the query is caught and logged inside the function
update_issue_with_defect_applied(issue_id, defect_key, bqOk) ==
    [issueTbl EXCEPT ![issue_id].jira_defect_key = defect_key,
                     ![issue_id].jira_defect_created_ts = Stamp]
update_issue_with_defect_ifnull(issue_id, defect_key, bqOk) ==
    IF bqOk /\ issueTbl[issue_id].jira_defect_key = NULL
    THEN [issueTbl EXCEPT ![issue_id].jira_defect_key = defect_key,
                          ![issue_id].jira_defect_created_ts = Stamp]
    ELSE issueTbl
update_issue_with_defect_keyonly(issue_id, defect_key, bqOk) ==
    IF bqOk
    THEN [issueTbl EXCEPT ![issue_id].jira_defect_key = defect_key]
    ELSE issueTbl
update_issue_with_defect(issue_id, defect_key, bqOk) ==
    IF bqOk
    THEN [issueTbl EXCEPT ![issue_id].jira_defect_key = defect_key,
                          ![issue_id].jira_defect_created_ts = Stamp]
    ELSE issueTbl

\* Pub/Sub envelopes of the test-failures topic
IssueEnvelopes ==
    {[data |-> FALSE, id |-> NULL]} \cup
    {[data |-> TRUE, id |-> i] : i \in {NULL, GhostId} \cup IssueIds}

IssueKeyOf(issue_id) ==
    IF IssueRow(issue_id) = NoRow THEN NULL ELSE IssueRow(issue_id).jira_defect_key
IssueTsOf(issue_id) ==
    IF IssueRow(issue_id) = NoRow THEN NoStamp ELSE IssueRow(issue_id).jira_defect_created_ts

\* create_alm_defect(cloud_event): one delivery of an envelope
create_alm_defect(env, getOk, chk, put, post, link, bqOk) ==
    /\ LET base == [handler |-> "create_alm_defect", id |-> env.id,
                    pre |-> IssueKeyOf(env.id), preTs |-> IssueTsOf(env.id),
                    calls |-> <<>>, created |-> FALSE, newKey |-> NULL,
                    gotKey |-> NULL, write |-> "none", ret |-> NULL,
                    raised |-> FALSE, http |-> "none"]
           issue_details == get_issue_details(env.id)
       IN  IF ~env.data
           THEN /\ last' = [base EXCEPT !.http = "200"]
                /\ UNCHANGED <<issueTbl, jira, jiraNext, jiraLinks>>
           ELSE IF MissingId(env.id)
           THEN /\ last' = [base EXCEPT !.http = "400"]
                /\ UNCHANGED <<issueTbl, jira, jiraNext, jiraLinks>>
           ELSE IF ~getOk
           THEN \* the query of get_issue_details raised: re-raised at line 85
                /\ last' = [base EXCEPT !.raised = TRUE]
                /\ UNCHANGED <<issueTbl, jira, jiraNext, jiraLinks>>
           ELSE IF issue_details = NoRow
           THEN /\ last' = [base EXCEPT !.http = "404"]
                /\ UNCHANGED <<issueTbl, jira, jiraNext, jiraLinks>>
           ELSE IF issue_details.jira_defect_key # NULL
           THEN \* lines 69-72: the result of update_defect_in_jira is dropped
                LET u == update_defect_in_jira(issue_details.jira_defect_key, chk, put)
                IN  /\ last' = [base EXCEPT !.calls = u.calls,
                                            !.ret = IF u.ret THEN issue_details.jira_defect_key
                                                    ELSE NULL]
                    /\ UNCHANGED <<issueTbl, jira, jiraNext, jiraLinks>>
           ELSE \* lines 73-81
                LET c == create_defect_in_jira(issue_details, post, link)
                    defect_key == c.ret
                    wrote == defect_key # NULL
                IN  /\ jira' = IF c.created
                               THEN [jira EXCEPT ![jiraNext] =
                                        [issuetype |-> "Bug", local |-> env.id, live |-> TRUE]]
                               ELSE jira
                    /\ jiraNext' = IF c.created THEN jiraNext + 1 ELSE jiraNext
                    /\ jiraLinks' = IF c.linked
                                    THEN jiraLinks \cup {<<defect_key, issue_details.alm_id>>}
                                    ELSE jiraLinks
                    /\ issueTbl' = IF wrote
                                   THEN update_issue_with_defect(env.id, defect_key, bqOk)
                                   ELSE issueTbl
                    /\ last' = [base EXCEPT !.calls = c.calls, !.created = c.created,
                                            !.newKey = IF c.created THEN jiraNext ELSE NULL,
                                            !.gotKey = defect_key,
                                            !.write = IF ~wrote THEN "none"
                                                      ELSE IF bqOk THEN "ok" ELSE "failed",
                                            !.ret = defect_key]
    /\ last'.created => jiraNext <= MaxKeys    \* the model's bound on keys
    /\ UNCHANGED <<reqTbl, tcTbl>>

----------------------------------------------------------------------------
(* The tracker's own users: a remote record is deleted independently *)

JiraDelete(k) ==
    /\ JiraExists(k)
    /\ jira' = [jira EXCEPT ![k].live = FALSE]
    /\ jiraLinks' = {l \in jiraLinks : l[1] # k /\ l[2] # k}
    /\ last' = NoRunLog
    /\ UNCHANGED <<reqTbl, tcTbl, issueTbl, jiraNext>>

----------------------------------------------------------------------------
(* Specification of the Remote Reference Lifecycle: envelopes are delivered *)
(* one at a time (the handlers of one entity are serialized), the tracker   *)
(* and the warehouse may fail at every call, and tracker records may be     *)
(* deleted by the tracker's users.                                          *)

ParentReq(t) == ((t - 1) % NumReqs) + 1

\* A run in which neither the tracker, the network nor the warehouse failed
\* (a 404 for a deleted record is an answer, not a failure)
FailureFree(l) ==
    /\ ~l.raised
    /\ \A n \in DOMAIN l.calls : l.calls[n].status \in {"200", "201", "404"}
    /\ l.write # "failed"
    /\ l.created => l.gotKey # NULL

Bump(n) == IF n = "none" THEN "once" ELSE "again"

Entities == ({"Requirement"} \X ReqIds) \cup ({"Issue"} \X IssueIds)

\* once a failure or a deletion has happened the counts are no longer kept
Unclean == [clean |-> FALSE, count |-> [e \in Entities |-> "none"]]

\* the history after a delivery whose log is l
NoteDelivery(kind, ids, l) ==
    IF ~(hist.clean /\ FailureFree(l)) THEN Unclean
    ELSE [clean |-> TRUE,
          count |-> IF l.id \in ids /\ l.http = "none"
                    THEN [hist.count EXCEPT ![<<kind, l.id>>] = Bump(@)]
                    ELSE hist.count]

\* jira_to_bigquery/main.py: the webhook handler and the Upsert Resolver.
\* (The definitions are used by InitLifecycle, which keeps this side at rest.)

\* two webhook invocations may be in flight at once
Hooks == {"h1", "h2"}
RemoteKeys == 1..NumRemoteKeys
\* the editable fields of a remote issue (issuetype, summary, description,
\* priority, status, assignee, updated) as one value: two versions
Contents == {"v1", "v2"}
\* fields.created as the tracker sends it: missing, or a Jira date string
RawDates == {"", "2023-12-01T10:30:00.000+0000"}
\* the "issue" objects of webhook payloads; the tracker sends the key of
\* the issue with every issue event
WebhookIssues == [key : RemoteKeys, fields : Contents, created : RawDates]
NoEvent == [absent |-> TRUE]
\* fields.updated of the two versions: "v2" is the later edit
UpdatedOf(fields) == IF fields = "v1" THEN 1 ELSE 2
\* the log of an invocation: its response, whether its MERGE was applied
\* and whether its message was published
NoHookLog == [status |-> "none", applied |-> FALSE, published |-> FALSE]
NoRedo == [unpublished |-> NoEvent, inflight |-> FALSE, ended |-> FALSE]
IdleHook == [pc |-> "idle", ev |-> NoEvent]

\* the webhook side at rest: an empty issues table and no invocation
UpsertAtRest ==
    /\ issuesTbl = <<>>
    /\ hooks = [h \in Hooks |-> IdleHook]
    /\ topic = {}
    /\ hookLast = NoHookLog
    /\ merged = [k \in RemoteKeys |-> "none"]
    /\ redo = NoRedo

\* backend/test.py and backend/core/workflow.py: intake, materializer and
\* publisher.

\* ids that uuid4 gives the test cases and the issues of the intake path
NewTestIds == 1..NumTests
NewIssueIds == 1..(NumTests + NumTests)

\* the log of a state in which no backend call has just run
NoFlow == [op |-> "none", id |-> NULL, raised |-> "none", http |-> "none",
           req_id |-> NULL, tests |-> <<>>, tags |-> <<>>, api |-> <<>>,
           env |-> "ok", mat |-> "not called", evaluated |-> 0,
           failed |-> "none",
           compliance |-> <<>>,
           issues |-> {}, project |-> "unset", send |-> "ok",
           published |-> {}, logged |-> FALSE, changed |-> FALSE]

\* the backend at rest: nothing published, no call made
IntakeAtRest ==
    /\ complianceTbl = <<>>
    /\ publisher = "PublisherClient"
    /\ channel = {}
    /\ flow = NoFlow

\* a warehouse with a Requirement, its TestCase and an Issue of it, as the
\* intake path and the materializer write them
WarehouseSeeded ==
    /\ reqTbl = [r \in ReqIds |-> [alm_id |-> NULL]]
    /\ tcTbl = [t \in TestIds |-> [req_id |-> ParentReq(t), sequence |-> t]]
    /\ issueTbl = [i \in IssueIds |->
                     [test_id |-> i, req_id |-> ParentReq(i),
                      regulatory_tag |-> "fda", compliance_score |-> 3000,
                      jira_defect_key |-> NULL, jira_defect_created_ts |-> NoStamp]]

\* a warehouse and a tracker after every Requirement was synced: the
\* Requirement r is linked to the remote Story with key r, which the
\* tracker's users may now edit
LifecycleLinked ==
    /\ reqTbl = [r \in ReqIds |-> [alm_id |-> r]]
    /\ tcTbl = [t \in TestIds |-> [req_id |-> ParentReq(t), sequence |-> t]]
    /\ issueTbl = [i \in IssueIds |->
                     [test_id |-> i, req_id |-> ParentReq(i),
                      regulatory_tag |-> "fda", compliance_score |-> 3000,
                      jira_defect_key |-> NULL, jira_defect_created_ts |-> NoStamp]]
    /\ jira = [k \in Keys |->
                 IF k \in ReqIds
                 THEN [issuetype |-> "Story", local |-> k, live |-> TRUE]
                 ELSE Absent]
    /\ jiraNext = NumReqs + 1
    /\ jiraLinks = {}
    /\ last = NoRunLog
    /\ hist = Unclean
    /\ syncs = NoSyncs
    /\ sweep = NoSweep

InitLifecycle ==
    /\ WarehouseSeeded
    /\ jira = [k \in Keys |-> Absent]
    /\ jiraNext = 1
    /\ jiraLinks = {}
    /\ last = NoRunLog
    /\ hist = [clean |-> TRUE, count |-> [e \in Entities |-> "none"]]
    /\ syncs = NoSyncs
    /\ sweep = NoSweep
    /\ UpsertAtRest
    /\ IntakeAtRest

\* The outcomes the environment can give one delivery.  Only the calls the
\* handler makes have an outcome: a call it does not reach gets "ok"/TRUE.
ReqOutcomes(env) ==
    LET dflt == [getOk |-> TRUE, put |-> "ok", post |-> "ok", bqOk |-> TRUE]
        creates == {[dflt EXCEPT !.post = p] : p \in {q \in PostOutcomes : PostRaises(q)}}
                   \cup {[dflt EXCEPT !.post = p, !.bqOk = b] :
                            p \in {"ok", "nokey"}, b \in BOOLEAN}
    IN  IF ~env.data \/ MissingId(env.id) THEN {dflt}
        ELSE {[dflt EXCEPT !.getOk = FALSE]} \cup
             (IF ReqRow(env.id) = NoRow THEN {dflt}
              ELSE IF ReqKeyOf(env.id) = NULL THEN creates
              ELSE {[dflt EXCEPT !.put = f] : f \in Faults \ {"ok"}} \cup
                   (IF JiraExists(ReqKeyOf(env.id)) THEN {dflt} ELSE creates))

IssueOutcomes(env) ==
    LET dflt == [getOk |-> TRUE, chk |-> "ok", put |-> "ok", post |-> "ok",
                 link |-> "ok", bqOk |-> TRUE]
        d == get_issue_details(env.id)
        links == IF d.alm_id = NULL THEN {"ok"} ELSE Faults
    IN  IF ~env.data \/ MissingId(env.id) THEN {dflt}
        ELSE {[dflt EXCEPT !.getOk = FALSE]} \cup
             (IF d = NoRow THEN {dflt}
              ELSE IF d.jira_defect_key # NULL
              THEN {[dflt EXCEPT !.chk = f, !.put = g] :
                        f \in Faults, g \in IF AdfAcceptsIsUpdate THEN Faults ELSE {"ok"}}
              ELSE {[dflt EXCEPT !.post = p] : p \in PostOutcomes \ {"ok"}} \cup
                   {[dflt EXCEPT !.link = l, !.bqOk = b] : l \in links, b \in BOOLEAN})

DeliverRequirement ==
    \E env \in ReqEnvelopes : \E o \in ReqOutcomes(env) :
        /\ create_alm_requirement(env, o.getOk, o.put, o.post, o.bqOk)
        /\ hist' = NoteDelivery("Requirement", ReqIds, last')

DeliverIssue ==
    \E env \in IssueEnvelopes : \E o \in IssueOutcomes(env) :
        /\ create_alm_defect(env, o.getOk, o.chk, o.put, o.post, o.link, o.bqOk)
        /\ hist' = NoteDelivery("Issue", IssueIds, last')

RemoteDelete ==
    \E k \in Keys : JiraDelete(k) /\ hist' = Unclean

NextLifecycle ==
    \/ DeliverRequirement /\ UNCHANGED <<syncs, sweep, upsertVars, intakeVars>>
    \/ DeliverIssue /\ UNCHANGED <<syncs, sweep, upsertVars, intakeVars>>
    \/ RemoteDelete /\ UNCHANGED <<syncs, sweep, upsertVars, intakeVars>>

SpecLifecycle == InitLifecycle /\ [][NextLifecycle]_vars

----------------------------------------------------------------------------
(* The same handlers when two invocations run at once.  An invocation is   *)
(* a sequence of steps, one per access to the warehouse or the tracker:    *)
(* the read of the row (get_requirement_details / get_issue_details), the  *)
(* update request when the row has a key, the create request, the link     *)
(* request, and the UPDATE that writes the new key.  Steps of different    *)
(* invocations interleave; in this specification every request is answered *)
(* and no remote record is deleted.                                        *)

\* another invocation for the same entity has started and not returned
Overlaps(p, kind, id) ==
    \E q \in Syncs \ {p} : syncs[q].pc # "idle" /\ syncs[q].kind = kind /\ syncs[q].id = id

\* the history after invocation p has started for an entity: hist.clean now
\* also says that the invocations of each entity have been serialized
NoteStart(p, kind, id) ==
    IF ~hist.clean \/ Overlaps(p, kind, id) THEN Unclean
    ELSE [hist EXCEPT !.count[<<kind, id>>] = Bump(@)]

\* the log of an invocation that returns
SyncLog(p, handler, created, write) ==
    [NoRunLog EXCEPT !.handler = handler, !.id = syncs[p].id,
                     !.pre = syncs[p].key, !.created = created,
                     !.newKey = syncs[p].got, !.gotKey = syncs[p].got,
                     !.write = write, !.ret = IF created THEN syncs[p].got ELSE syncs[p].key]

\* create_alm_requirement, lines 474-480 and 514: the row is read
RequirementRead(p, req_id) ==
    /\ syncs[p].pc = "idle"
    /\ LET row == get_requirement_details(req_id)
       IN  /\ row # NoRow
           /\ syncs' = [syncs EXCEPT ![p] =
                          [IdleSync EXCEPT !.pc = IF HasAlmId(row.alm_id) THEN "update"
                                                 ELSE "create",
                                           !.kind = "Requirement", !.id = req_id,
                                           !.key = row.alm_id]]
    /\ hist' = NoteStart(p, "Requirement", req_id)
    /\ UNCHANGED <<reqTbl, tcTbl, issueTbl, jira, jiraNext, jiraLinks, last>>

\* lines 556-566: the PUT for the key that was read
RequirementUpdate(p) ==
    /\ syncs[p].pc = "update" /\ syncs[p].kind = "Requirement"
    /\ LET status == ByKeyStatus(syncs[p].key, "ok")
       IN  IF IsStale(status)
           THEN /\ syncs' = [syncs EXCEPT ![p].pc = "create"]
                /\ UNCHANGED last
           ELSE /\ syncs' = [syncs EXCEPT ![p] = IdleSync]
                /\ last' = SyncLog(p, "create_alm_requirement", FALSE, "none")
    /\ UNCHANGED <<reqTbl, tcTbl, issueTbl, jira, jiraNext, jiraLinks, hist>>

\* lines 570-578: the POST that creates the Story
RequirementCreate(p) ==
    /\ syncs[p].pc = "create" /\ syncs[p].kind = "Requirement"
    /\ jiraNext <= MaxKeys                      \* the model's bound on keys
    /\ jira' = [jira EXCEPT ![jiraNext] =
                  [issuetype |-> "Story", local |-> syncs[p].id, live |-> TRUE]]
    /\ jiraNext' = jiraNext + 1
    /\ syncs' = [syncs EXCEPT ![p].pc = "write", ![p].got = ReplyKey("ok")]
    /\ UNCHANGED <<reqTbl, tcTbl, issueTbl, jiraLinks, last, hist>>

\* lines 581-593: the UPDATE of alm_id
RequirementWrite(p) ==
    /\ syncs[p].pc = "write" /\ syncs[p].kind = "Requirement"
    /\ reqTbl' = [reqTbl EXCEPT ![syncs[p].id].alm_id = syncs[p].got]
    /\ last' = SyncLog(p, "create_alm_requirement", TRUE, "ok")
    /\ syncs' = [syncs EXCEPT ![p] = IdleSync]
    /\ UNCHANGED <<tcTbl, issueTbl, jira, jiraNext, jiraLinks, hist>>

\* create_alm_defect, lines 55-67: the joined row is read
DefectRead(p, issue_id) ==
    /\ syncs[p].pc = "idle"
    /\ LET d == get_issue_details(issue_id)
       IN  /\ d # NoRow
           /\ syncs' = [syncs EXCEPT ![p] =
                          [IdleSync EXCEPT !.pc = IF d.jira_defect_key # NULL THEN "update"
                                                 ELSE "create",
                                           !.kind = "Issue", !.id = issue_id,
                                           !.key = d.jira_defect_key,
                                           !.alm_id = d.alm_id]]
    /\ hist' = NoteStart(p, "Issue", issue_id)
    /\ UNCHANGED <<reqTbl, tcTbl, issueTbl, jira, jiraNext, jiraLinks, last>>

\* lines 69-72: update_defect_in_jira, whose result is dropped
DefectUpdate(p) ==
    /\ syncs[p].pc = "update" /\ syncs[p].kind = "Issue"
    /\ LET u == update_defect_in_jira(syncs[p].key, "ok", "ok")
       IN  last' = [SyncLog(p, "create_alm_defect", FALSE, "none") EXCEPT
                      !.calls = u.calls,
                      !.ret = IF u.ret THEN syncs[p].key ELSE NULL]
    /\ syncs' = [syncs EXCEPT ![p] = IdleSync]
    /\ UNCHANGED <<reqTbl, tcTbl, issueTbl, jira, jiraNext, jiraLinks, hist>>

\* create_defect_in_jira, lines 175-185: the POST that creates the Bug
DefectCreate(p) ==
    /\ syncs[p].pc = "create" /\ syncs[p].kind = "Issue"
    /\ jiraNext <= MaxKeys                      \* the model's bound on keys
    /\ jira' = [jira EXCEPT ![jiraNext] =
                  [issuetype |-> "Bug", local |-> syncs[p].id, live |-> TRUE]]
    /\ jiraNext' = jiraNext + 1
    /\ syncs' = [syncs EXCEPT
                   ![p].pc = IF ShouldLink(syncs[p].alm_id, ReplyKey("ok"))
                             THEN "link" ELSE "write",
                   ![p].got = ReplyKey("ok")]
    /\ UNCHANGED <<reqTbl, tcTbl, issueTbl, jiraLinks, last, hist>>

\* lines 188-189: link_issues(defect_key, alm_id) with the alm_id read
DefectLink(p) ==
    /\ syncs[p].pc = "link" /\ syncs[p].kind = "Issue"
    /\ jiraLinks' = IF link_issues(syncs[p].alm_id, "ok") = "201"
                    THEN jiraLinks \cup {<<syncs[p].got, syncs[p].alm_id>>}
                    ELSE jiraLinks
    /\ syncs' = [syncs EXCEPT ![p].pc = "write"]
    /\ UNCHANGED <<reqTbl, tcTbl, issueTbl, jira, jiraNext, last, hist>>

\* lines 78-81: update_issue_with_defect(issue_id, defect_key)
DefectWrite(p) ==
    /\ syncs[p].pc = "write" /\ syncs[p].kind = "Issue"
    /\ issueTbl' = update_issue_with_defect(syncs[p].id, syncs[p].got, TRUE)
    /\ last' = SyncLog(p, "create_alm_defect", TRUE, "ok")
    /\ syncs' = [syncs EXCEPT ![p] = IdleSync]
    /\ UNCHANGED <<reqTbl, tcTbl, jira, jiraNext, jiraLinks, hist>>

InitRace ==
    /\ WarehouseSeeded
    /\ jira = [k \in Keys |-> Absent]
    /\ jiraNext = 1
    /\ jiraLinks = {}
    /\ last = NoRunLog
    /\ hist = [clean |-> TRUE, count |-> [e \in Entities |-> "none"]]
    /\ syncs = NoSyncs
    /\ sweep = NoSweep
    /\ UpsertAtRest
    /\ IntakeAtRest

NextRace ==
    \/ \E p \in Syncs, r \in ReqIds :
          RequirementRead(p, r) /\ UNCHANGED <<sweep, upsertVars, intakeVars>>
    \/ \E p \in Syncs : RequirementUpdate(p) /\ UNCHANGED <<sweep, upsertVars, intakeVars>>
    \/ \E p \in Syncs : RequirementCreate(p) /\ UNCHANGED <<sweep, upsertVars, intakeVars>>
    \/ \E p \in Syncs : RequirementWrite(p) /\ UNCHANGED <<sweep, upsertVars, intakeVars>>
    \/ \E p \in Syncs, i \in IssueIds :
          DefectRead(p, i) /\ UNCHANGED <<sweep, upsertVars, intakeVars>>
    \/ \E p \in Syncs : DefectUpdate(p) /\ UNCHANGED <<sweep, upsertVars, intakeVars>>
    \/ \E p \in Syncs : DefectCreate(p) /\ UNCHANGED <<sweep, upsertVars, intakeVars>>
    \/ \E p \in Syncs : DefectLink(p) /\ UNCHANGED <<sweep, upsertVars, intakeVars>>
    \/ \E p \in Syncs : DefectWrite(p) /\ UNCHANGED <<sweep, upsertVars, intakeVars>>

SpecRace == InitRace /\ [][NextRace]_vars

----------------------------------------------------------------------------
(* bigquery_to_jira/main.py: update_jira_from_test_results, the bulk       *)
(* endpoint.  One call is a start step (the ids of the request, or the     *)
(* scan for rows without a key), one step per issue id of the loop, and    *)
(* the return; no other call runs in between.                              *)

\* the orders in which a query can return the elements of a set
Perms(S) ==
    {f \in [1..Cardinality(S) -> S] :
        \A i, j \in 1..Cardinality(S) : i # j => f[i] # f[j]}

\* request_json.get('issue_ids', []): absent or empty, or up to MaxIds ids
RequestedIds ==
    UNION {[1..n -> IssueIds \cup {GhostId}] : n \in 0..MaxIds}

\* lines 417-427: the rows WHERE jira_defect_key IS NULL, in the order of ts
NullKeyIssues ==
    {i \in IssueIds : issueTbl[i] # NoRow /\ issueTbl[i].jira_defect_key = NULL}

\* line 436, "if issue_details.get('jira_defect_key'):"
AlreadyHasDefect_never(issue_details) == FALSE
AlreadyHasDefect(issue_details) == issue_details.jira_defect_key # NULL

\* lines 412-430: the start of a call with request ids issue_ids; scan is
\* what the query returns when it is made and does not raise
SweepStart(issue_ids, scanOk, scan) ==
    /\ sweep.pc = "idle"
    /\ IF issue_ids # <<>>
       THEN sweep' = [NoSweep EXCEPT !.pc = "loop", !.explicit = TRUE,
                                     !.issue_ids = issue_ids]
       ELSE IF ~scanOk
       THEN \* line 425 raised: caught at line 450
            sweep' = [NoSweep EXCEPT !.http = "500"]
       ELSE /\ scan \in Perms(NullKeyIssues)
            /\ sweep' = [NoSweep EXCEPT !.pc = "loop", !.issue_ids = scan]
    /\ last' = NoRunLog
    /\ UNCHANGED <<reqTbl, tcTbl, issueTbl, jira, jiraNext, jiraLinks>>

\* lines 432-442: one iteration of the loop, for the first id that is left
SweepStep(getOk, post, link, bqOk) ==
    /\ sweep.pc = "loop" /\ sweep.issue_ids # <<>>
    /\ LET issue_id == Head(sweep.issue_ids)
           rest == [sweep EXCEPT !.issue_ids = Tail(sweep.issue_ids)]
           base == [handler |-> "update_jira_from_test_results", id |-> issue_id,
                    pre |-> IssueKeyOf(issue_id), preTs |-> IssueTsOf(issue_id),
                    calls |-> <<>>, created |-> FALSE, newKey |-> NULL,
                    gotKey |-> NULL, write |-> "none", ret |-> NULL,
                    raised |-> FALSE, http |-> "none"]
           issue_details == get_issue_details(issue_id)
       IN  IF ~getOk
           THEN \* the query of get_issue_details raised: caught at line 450
                /\ sweep' = [sweep EXCEPT !.pc = "idle", !.http = "500"]
                /\ last' = [base EXCEPT !.raised = TRUE]
                /\ UNCHANGED <<issueTbl, jira, jiraNext, jiraLinks>>
           ELSE IF issue_details = NoRow
           THEN /\ sweep' = rest
                /\ last' = [base EXCEPT !.http = "404"]
                /\ UNCHANGED <<issueTbl, jira, jiraNext, jiraLinks>>
           ELSE IF AlreadyHasDefect(issue_details)
           THEN \* lines 436-438: continue
                /\ sweep' = [rest EXCEPT !.skipped = @ + 1]
                /\ last' = base
                /\ UNCHANGED <<issueTbl, jira, jiraNext, jiraLinks>>
           ELSE LET c == create_defect_in_jira(issue_details, post, link)
                    defect_key == c.ret
                    wrote == defect_key # NULL
                IN  /\ jira' = IF c.created
                               THEN [jira EXCEPT ![jiraNext] =
                                        [issuetype |-> "Bug", local |-> issue_id,
                                         live |-> TRUE]]
                               ELSE jira
                    /\ jiraNext' = IF c.created THEN jiraNext + 1 ELSE jiraNext
                    /\ jiraLinks' = IF c.linked
                                    THEN jiraLinks \cup {<<defect_key, issue_details.alm_id>>}
                                    ELSE jiraLinks
                    /\ issueTbl' = IF wrote
                                   THEN update_issue_with_defect(issue_id, defect_key, bqOk)
                                   ELSE issueTbl
                    /\ sweep' = [rest EXCEPT
                                   !.created_defects =
                                       IF wrote THEN Append(@, defect_key) ELSE @,
                                   !.made = IF c.created THEN @ + 1 ELSE @,
                                   !.lost = IF c.created /\ ~wrote THEN @ + 1 ELSE @]
                    /\ last' = [base EXCEPT !.calls = c.calls, !.created = c.created,
                                            !.newKey = IF c.created THEN jiraNext ELSE NULL,
                                            !.gotKey = defect_key,
                                            !.write = IF ~wrote THEN "none"
                                                      ELSE IF bqOk THEN "ok" ELSE "failed",
                                            !.ret = defect_key]
    /\ last'.created => jiraNext <= MaxKeys    \* the model's bound on keys
    /\ UNCHANGED <<reqTbl, tcTbl>>

\* lines 444-448: the response after the loop
SweepReturn ==
    /\ sweep.pc = "loop" /\ sweep.issue_ids = <<>>
    /\ sweep' = [sweep EXCEPT !.pc = "idle", !.http = "200",
                              !.count = Len(sweep.created_defects)]
    /\ last' = NoRunLog
    /\ UNCHANGED <<reqTbl, tcTbl, issueTbl, jira, jiraNext, jiraLinks>>

\* the outcomes the environment can give one iteration: only the calls the
\* iteration makes have one
SweepOutcomes ==
    LET dflt == [getOk |-> TRUE, post |-> "ok", link |-> "ok", bqOk |-> TRUE]
        d == get_issue_details(Head(sweep.issue_ids))
        links == IF d.alm_id = NULL THEN {"ok"} ELSE Faults
    IN  {[dflt EXCEPT !.getOk = FALSE]} \cup
        (IF d = NoRow THEN {dflt}
         ELSE IF d.jira_defect_key # NULL THEN {dflt}
         ELSE {[dflt EXCEPT !.post = p] : p \in PostOutcomes \ {"ok"}} \cup
              {[dflt EXCEPT !.link = l, !.bqOk = b] : l \in links, b \in BOOLEAN})

\* a warehouse whose Issues are not synced and whose Requirements are
\* either all synced or all not
InitSweep ==
    /\ LifecycleLinked \/ InitLifecycle
    /\ UpsertAtRest
    /\ IntakeAtRest

NextSweep ==
    \/ \E issue_ids \in RequestedIds, scanOk \in BOOLEAN, scan \in Perms(NullKeyIssues) :
          /\ SweepStart(issue_ids, scanOk, scan)
          /\ UNCHANGED <<hist, syncs, upsertVars, intakeVars>>
    \/ /\ sweep.pc = "loop" /\ sweep.issue_ids # <<>>
       /\ \E o \in SweepOutcomes : SweepStep(o.getOk, o.post, o.link, o.bqOk)
       /\ UNCHANGED <<hist, syncs, upsertVars, intakeVars>>
    \/ SweepReturn /\ UNCHANGED <<hist, syncs, upsertVars, intakeVars>>

SpecSweep == InitSweep /\ [][NextSweep]_vars

----------------------------------------------------------------------------
(* Claims about the Remote Reference Lifecycle (SpecLifecycle) *)

RanRequirement == last.handler = "create_alm_requirement" /\ last.id \in ReqIds
RanIssue == last.handler = "create_alm_defect" /\ last.id \in IssueIds

HasCall(l, op, key, status) ==
    \E n \in DOMAIN l.calls : l.calls[n] = CallLog(op, key, status)

\* number of remote records the tracker ever created for a local entity
CreatedFor(type, id) ==
    Cardinality({k \in Keys : jira[k] # Absent /\ jira[k].issuetype = type
                              /\ jira[k].local = id})

\* the last run was a failure-free sync of a Requirement whose stored key
\* the tracker answered not-found for
StaleRequirementRun ==
    /\ RanRequirement
    /\ last.pre # NULL
    /\ HasCall(last, "PUT", last.pre, "404")
    /\ FailureFree(last)

\* C1: a failure-free syncRequirement of a Requirement whose stored key K is
\* not found remotely creates a new remote record and leaves alm_id equal to
\* the newly returned key, which differs from K.
C1_StaleRepair ==
    StaleRequirementRun =>
        /\ last.created
        /\ last.newKey # NULL /\ last.newKey # last.pre
        /\ last.gotKey = last.newKey
        /\ reqTbl[last.id].alm_id = last.newKey
        /\ JiraExists(last.newKey)
        /\ jira[last.newKey] = [issuetype |-> "Story", local |-> last.id, live |-> TRUE]

C1_Witness ==
    /\ StaleRequirementRun
    /\ reqTbl[last.id].alm_id = last.newKey
    /\ ~JiraExists(last.pre)

\* the last run was a failure-free sync of an Issue whose stored key the
\* tracker answered not-found for
StaleIssueRun ==
    /\ RanIssue
    /\ last.pre # NULL
    /\ HasCall(last, "GET", last.pre, "404")
    /\ FailureFree(last)

\* C2: syncIssue of an Issue whose stored key is not found remotely falls
\* through to Create: a new remote defect is created and the row's
\* jira_defect_key is replaced by the new key.
C2_StaleIssueRepair ==
    StaleIssueRun =>
        /\ last.created
        /\ last.newKey # NULL /\ last.newKey # last.pre
        /\ issueTbl[last.id].jira_defect_key = last.newKey

\* the last run created a remote defect and its create-link call failed
LinkFailedRun ==
    /\ RanIssue
    /\ last.created /\ last.newKey # NULL
    /\ \E n \in DOMAIN last.calls :
          last.calls[n].op = "LINK" /\ last.calls[n].status # "201"

\* C6: when the create succeeded and the create-link call fails, the new
\* key is still written to the Issue row (key and timestamp; only a failure
\* of the warehouse write itself can prevent it) and the created remote
\* defect stays.
C6_LinkFailureKeepsKey ==
    LinkFailedRun =>
        /\ last.gotKey = last.newKey
        /\ last.write # "none"
        /\ last.write = "ok" =>
              /\ issueTbl[last.id].jira_defect_key = last.newKey
              /\ issueTbl[last.id].jira_defect_created_ts = Stamp
        /\ JiraExists(last.newKey)
        /\ jira[last.newKey].issuetype = "Bug"

C6_Witness ==
    /\ LinkFailedRun
    /\ last.write = "ok"
    /\ issueTbl[last.id].jira_defect_key = last.newKey
    /\ <<last.newKey, reqTbl[issueTbl[last.id].req_id].alm_id>> \notin jiraLinks

\* the local remote-key columns of the entity the last run was about
LocalKey == IF RanRequirement THEN reqTbl[last.id].alm_id
            ELSE issueTbl[last.id].jira_defect_key
LocalTs == IF RanRequirement THEN NoStamp
           ELSE issueTbl[last.id].jira_defect_created_ts

\* the last run attempted a remote create that failed, timed out or
\* returned no key
CreateFailedRun ==
    /\ RanRequirement \/ RanIssue
    /\ \E n \in DOMAIN last.calls :
          last.calls[n].op = "POST" /\ (last.calls[n].status # "201" \/ last.gotKey = NULL)

\* C7: a syncX run whose remote create fails, times out or returns no key
\* leaves the local row exactly as it was before the run.
C7_NoPartialKeyWrite ==
    CreateFailedRun => LocalKey = last.pre /\ LocalTs = last.preTs

\* the last run was a sync of a Linked entity whose remote record exists
LinkedRun ==
    /\ RanRequirement \/ RanIssue
    /\ last.http = "none" /\ ~last.raised
    /\ last.pre # NULL
    /\ JiraExists(last.pre)

\* C8: a delivery for a Linked entity whose remote record exists creates no
\* remote record and leaves the local key and timestamp unchanged; and
\* while every delivery has been failure-free and no remote record was
\* deleted, each entity that was delivered at least once has exactly one
\* remote record, the one its row names.
C8_RedeliveryNoOp ==
    /\ LinkedRun =>
          /\ ~last.created
          /\ last.write = "none"
          /\ LocalKey = last.pre /\ LocalTs = last.preTs
    /\ hist.clean =>
          /\ \A r \in ReqIds : hist.count[<<"Requirement", r>>] # "none" =>
                /\ CreatedFor("Story", r) = 1
                /\ JiraExists(reqTbl[r].alm_id)
                /\ jira[reqTbl[r].alm_id].local = r
          /\ \A i \in IssueIds : hist.count[<<"Issue", i>>] # "none" =>
                /\ CreatedFor("Bug", i) = 1
                /\ JiraExists(issueTbl[i].jira_defect_key)
                /\ jira[issueTbl[i].jira_defect_key].local = i

C8_Witness ==
    /\ LinkedRun
    /\ hist.clean
    /\ hist.count[<<"Requirement", 1>>] = "again"
    /\ hist.count[<<"Issue", 1>>] = "again"

\* a remote create or update call of the last run met a network error or
\* a 5xx status
TransientRun ==
    /\ RanRequirement \/ RanIssue
    /\ \E n \in DOMAIN last.calls :
          /\ last.calls[n].op \in {"PUT", "POST"}
          /\ last.calls[n].status \in {"transient", "timeout"}

\* C12: when a remote create or update call of a sync handler fails with a
\* network or 5xx-class error, the handler invocation ends with the
\* exception raised to the transport (so that the envelope is redelivered).
C12_TransientRaises == TransientRun => last.raised

\* the last run created a remote record, read its key from the reply and
\* failed to write the key to the warehouse row
KeyWriteFailedRun ==
    /\ RanRequirement \/ RanIssue
    /\ last.created /\ last.gotKey # NULL
    /\ last.write = "failed"

\* C13: when the warehouse write of the new remote key fails after a
\* successful remote create, the handler invocation fails: the exception is
\* raised to the transport.
C13_WriteFailureRaises == KeyWriteFailedRun => last.raised

\* the last delivery carried no data field or named no id
UnroutableRun == last.handler # "none" /\ last.http \in {"200", "400"}

\* C14: a delivery whose envelope has no data field, or whose message names
\* no id for the handler's entity, returns without raising, makes no remote
\* call and writes nothing to the warehouse.
C14_UnroutableDropped ==
    /\ (last.handler # "none" /\ last.id = NULL) => UnroutableRun
    /\ UnroutableRun =>
          /\ ~last.raised
          /\ last.calls = <<>> /\ ~last.created
          /\ last.write = "none"

\* an envelope without an id was delivered to a warehouse that holds a
\* Linked Requirement
C14_Witness ==
    /\ UnroutableRun
    /\ last.handler = "create_alm_defect" /\ last.http = "400"
    /\ ~last.raised
    /\ \E r \in ReqIds : reqTbl[r].alm_id # NULL

\* the update of a Linked Requirement was answered with a 4xx status other
\* than 404
PermanentErrorRun ==
    /\ RanRequirement
    /\ last.pre # NULL
    /\ HasCall(last, "PUT", last.pre, "http4xx")

\* C15: when the remote update of a Linked Requirement fails with a 4xx
\* status other than not-found, the run makes no create call and creates no
\* remote record, the row's alm_id stays as it was, and the handler returns
\* without raising.
C15_PermanentErrorAcked ==
    PermanentErrorRun =>
        /\ ~last.created
        /\ \A n \in DOMAIN last.calls : last.calls[n].op # "POST"
        /\ last.write = "none"
        /\ reqTbl[last.id].alm_id = last.pre
        /\ ~last.raised

C15_Witness ==
    /\ PermanentErrorRun
    /\ JiraExists(last.pre)
    /\ reqTbl[last.id].alm_id = last.pre
    /\ ~last.raised

\* the last run was a sync of a Linked Issue whose remote defect exists, in
\* which no request met a fault
LinkedIssueRun ==
    /\ RanIssue /\ LinkedRun
    /\ FailureFree(last)

\* C22: syncIssue of a Linked Issue whose remote defect exists issues the
\* remote update (PUT) for exactly the stored key, the update is reported
\* as successful, no remote record is created and the Issue row stays as it
\* was.
C22_UpdateUpdates ==
    LinkedIssueRun =>
        /\ HasCall(last, "PUT", last.pre, "200")
        /\ \A n \in DOMAIN last.calls : last.calls[n].key = last.pre
        /\ last.ret = last.pre
        /\ ~last.created /\ last.write = "none"
        /\ LocalKey = last.pre /\ LocalTs = last.preTs

\* the remote issue type of the records a handler creates
TypeOf(handler) == IF handler = "create_alm_requirement" THEN "Story" ELSE "Bug"

\* the remote records of the last run's entity that existed before the run
Orphans ==
    {k \in Keys : /\ jira[k] # Absent
                  /\ jira[k].issuetype = TypeOf(last.handler)
                  /\ jira[k].local = last.id
                  /\ k # last.newKey}

\* the last run was a sync, in which nothing failed, of an entity whose row
\* had a null key although a remote record had been created for it: the
\* key of that record was not persisted
RetryRun ==
    /\ RanRequirement \/ RanIssue
    /\ last.http = "none" /\ FailureFree(last)
    /\ last.pre = NULL
    /\ Orphans # {}

\* C23: when a sync created a remote record and the write of its key to
\* the local row failed, the row keeps the key it had (null for an entity
\* that was Unlinked), which is what the next sync reads.  A sync that
\* finds a null key on a row whose entity already has a remote record does
\* not look for that record: when nothing fails it creates another one, so
\* that two remote records have been created for the one local entity, and
\* the local row names the new one only.
C23_DuplicateOnLostWrite ==
    /\ KeyWriteFailedRun => LocalKey = last.pre /\ LocalTs = last.preTs
    /\ RetryRun =>
          /\ last.created
          /\ \A n \in DOMAIN last.calls : last.calls[n].op \in {"POST", "LINK"}
          /\ last.newKey # NULL
          /\ jira[last.newKey] = [issuetype |-> TypeOf(last.handler),
                                  local |-> last.id, live |-> TRUE]
          /\ CreatedFor(TypeOf(last.handler), last.id) >= 2
          /\ LocalKey = last.newKey /\ LocalKey \notin Orphans

\* two remote records exist for the entity of the last run, which found a
\* null key although a record of the entity existed, created the second
\* and wrote its key
C23_Witness ==
    /\ RanRequirement \/ RanIssue
    /\ last.pre = NULL /\ last.created /\ last.write = "ok"
    /\ FailureFree(last)
    /\ CreatedFor(TypeOf(last.handler), last.id) = 2
    /\ \A k \in Keys : JiraExists(k) /\ jira[k].local = last.id
    /\ LocalKey = last.newKey

\* the remote key of the parent Requirement of an Issue, as the join of
\* get_issue_details reads it
ParentKey(issue_id) == get_issue_details(issue_id).alm_id

\* the positions of the create-link calls in the log of the last run
LinkCalls == {n \in DOMAIN last.calls : last.calls[n].op = "LINK"}

\* C26: a create-link call of a syncIssue run comes directly after the
\* remote create that returned the defect's key, and names the parent
\* Requirement's remote key as read with the Issue row, which is non-null;
\* when the parent Requirement is Unlinked the run makes no create-link
\* call, and a create that returns a key still succeeds: the key is
\* returned and written to the row (unless the warehouse write itself
\* fails).
C26_LinkOrdering ==
    RanIssue =>
        /\ \A n \in LinkCalls :
              /\ n > 1
              /\ last.calls[n - 1] = CallLog("POST", NULL, "201")
              /\ last.created /\ last.gotKey # NULL
              /\ ParentKey(last.id) # NULL
              /\ last.calls[n].key = ParentKey(last.id)
        /\ (last.http = "none" /\ ~last.raised /\ ParentKey(last.id) = NULL) =>
              /\ LinkCalls = {}
              /\ HasCall(last, "POST", NULL, "201") =>
                    /\ last.created
                    /\ last.ret = last.gotKey
                    /\ last.gotKey # NULL =>
                          /\ last.write # "none"
                          /\ last.write = "ok" => LocalKey = last.gotKey

\* a defect was created for an Issue whose parent is Linked, and then linked
C26_Witness ==
    /\ RanIssue
    /\ LinkCalls # {}
    /\ last.created /\ last.gotKey # NULL
    /\ <<last.gotKey, ParentKey(last.id)>> \in jiraLinks

----------------------------------------------------------------------------
(* Claims about interleaved handler invocations (SpecRace) *)

\* the invocation has created a remote record whose key it has not written
HoldsNewKey(p) == syncs[p].pc \in {"link", "write"}

HandlerOf(kind) == IF kind = "Requirement" THEN "create_alm_requirement"
                   ELSE "create_alm_defect"

\* C24: an invocation creates a remote record on the strength of the null
\* key it read, whatever has happened to the row since: two invocations
\* for one entity that both read null both create a record, each its own;
\* the row then names the key that was written last; and while the
\* invocations of each entity have been serialized (and nothing failed),
\* no entity has more than one remote record.
C24_SameEntityRace ==
    /\ \A p \in Syncs : HoldsNewKey(p) =>
          /\ syncs[p].key = NULL
          /\ jira[syncs[p].got] = [issuetype |-> TypeOf(HandlerOf(syncs[p].kind)),
                                   local |-> syncs[p].id, live |-> TRUE]
          /\ \A q \in Syncs \ {p} : HoldsNewKey(q) => syncs[q].got # syncs[p].got
    /\ (last.handler # "none" /\ last.write = "ok") =>
          /\ LocalKey = last.gotKey
          /\ \A k \in Keys \ {last.gotKey} : LocalKey # k
    /\ hist.clean =>
          \A e \in Entities : CreatedFor(TypeOf(HandlerOf(e[1])), e[2]) <= 1

\* both invocations read a null key for the same Issue, both created a
\* defect and both wrote: the row names the key written last
C24_Witness ==
    /\ \A p \in Syncs : syncs[p].pc = "idle"
    /\ last.handler = "create_alm_defect" /\ last.write = "ok" /\ last.pre = NULL
    /\ CreatedFor("Bug", last.id) = 2
    /\ issueTbl[last.id].jira_defect_key = last.gotKey
    /\ ~hist.clean

\* every invocation has returned, each entity was synced by invocations
\* that did not overlap one another of the same entity
SettledRace ==
    /\ \A p \in Syncs : syncs[p].pc = "idle"
    /\ hist.clean

\* C25: once syncIssue(I) and syncRequirement(R) of I's parent Requirement
\* R have both completed, in whatever order their steps ran, the final
\* state is the same: both rows have their keys and the tracker links I's
\* defect to R's story.
C25_OrderIndependent ==
    SettledRace =>
        \A i \in IssueIds :
            LET r == tcTbl[issueTbl[i].test_id].req_id
            IN  (hist.count[<<"Issue", i>>] # "none" /\ hist.count[<<"Requirement", r>>] # "none")
                => /\ issueTbl[i].jira_defect_key # NULL
                   /\ reqTbl[r].alm_id # NULL
                   /\ <<issueTbl[i].jira_defect_key, reqTbl[r].alm_id>> \in jiraLinks

----------------------------------------------------------------------------
(* Claims about the bulk endpoint (SpecSweep) *)

\* the last step was an iteration of the loop that read the row of its id
SweptIssue ==
    /\ last.handler = "update_jira_from_test_results"
    /\ last.id \in IssueIds /\ ~last.raised

\* the call has returned its report
SweepReturned == sweep.pc = "idle" /\ sweep.http = "200"

\* an iteration creates a remote defect, and makes a remote call at all,
\* only for an issue whose row had a null key when the iteration read it;
\* an issue whose row has a key is passed over with no remote call and no
\* write, whether its id came from the request or from the scan
SweepSkipsLinked ==
    SweptIssue =>
        /\ (last.created \/ last.calls # <<>> \/ last.write # "none") => last.pre = NULL
        /\ last.pre # NULL =>
              /\ last.calls = <<>> /\ ~last.created /\ last.write = "none"
              /\ LocalKey = last.pre /\ LocalTs = last.preTs
              /\ JiraExists(last.pre) => CreatedFor("Bug", last.id) >= 1

\* C27 as stated: the sweep creates a defect only for an issue whose key is
\* null when read, passes over an issue that has a key without a remote
\* call or a write, and reports a count equal to the number of remote
\* defects created in the call.
C27_SweepCountsCreated ==
    /\ SweepSkipsLinked
    /\ SweepReturned => sweep.count = sweep.made

\* C27, corrected: as above, but the reported count is the number of
\* create calls that returned a key to the function; a defect that the
\* tracker created while the reply was lost or carried no key is not
\* counted (and is not written to any row).
C27_SweepCountsReturnedKeys ==
    /\ SweepSkipsLinked
    /\ SweepReturned =>
          /\ sweep.count = Len(sweep.created_defects)
          /\ sweep.count = sweep.made - sweep.lost
          /\ \A n \in DOMAIN sweep.created_defects :
                /\ jira[sweep.created_defects[n]] # Absent
                /\ jira[sweep.created_defects[n]].issuetype = "Bug"

\* a call with explicit ids has returned: it created one defect and passed
\* over an id whose row had a key
C27_Witness ==
    /\ SweepReturned
    /\ sweep.explicit
    /\ sweep.count = 1 /\ sweep.made = 1
    /\ sweep.skipped >= 1

\* an Issue row's key and its key timestamp are both null or both set
KeyAndStampAgree(row) ==
    (row.jira_defect_key # NULL) <=> (row.jira_defect_created_ts # NoStamp)

\* C28: in every reachable state an Issue row's jira_defect_key is non-null
\* if and only if its jira_defect_created_ts is non-null; the rows the
\* materializer made carry neither, and the one write that follows a
\* successful remote create sets both (a failed write sets neither).
C28_KeyAndStampTogether ==
    /\ \A i \in DOMAIN issueTbl :
          issueTbl[i] # NoRow => KeyAndStampAgree(issueTbl[i])
    /\ (SweptIssue /\ last.pre = NULL) =>
          IF last.write = "ok"
          THEN /\ last.created /\ last.gotKey # NULL
               /\ LocalKey = last.gotKey /\ LocalTs = Stamp
          ELSE LocalKey = NULL /\ LocalTs = NoStamp

\* an iteration created a defect for a row that had neither column set and
\* wrote the key and the timestamp
C28_Witness ==
    /\ SweptIssue /\ last.write = "ok"
    /\ last.pre = NULL /\ last.preTs = NoStamp
    /\ LocalKey = last.gotKey /\ LocalTs = Stamp

----------------------------------------------------------------------------
(* jira_to_bigquery/main.py: jira_webhook_handler and handle_issue_sync *)

\* parse_jira_date: None for a missing date, else dateutil's parse of the
\* string, rendered by isoformat()
parse_jira_date(date_string) ==
    IF date_string = "" THEN NoStamp
    ELSE "2023-12-01T10:30:00+00:00"

\* lines 74-85: issue_data extracted from the payload's issue object
issue_data(issue) ==
    [issue_id |-> issue.key, fields |-> issue.fields,
     created_date |-> parse_jira_date(issue.created), sync_timestamp |-> Stamp]

\* line 91, ON T.issue_id = S.issue_id: SQL equality, never true of NULL
MergeMatches_never(row, issue_id) == FALSE
MergeMatches(row, issue_id) == issue_id # NULL /\ row.issue_id = issue_id

\* lines 93-102, UPDATE SET: the matched row after the update
MergeUpdate_all(row, d) == d
MergeUpdate(row, d) ==
    [row EXCEPT !.fields = d.fields, !.sync_timestamp = d.sync_timestamp]

\* lines 88-106: the issues table after the MERGE of d.  WHEN MATCHED every
\* matching row gets d's fields (created_date is not in the SET list); WHEN
\* NOT MATCHED one row is inserted.
MergeIssue(tbl, d) ==
    IF \E n \in DOMAIN tbl : MergeMatches(tbl[n], d.issue_id)
    THEN [n \in DOMAIN tbl |->
            IF MergeMatches(tbl[n], d.issue_id)
            THEN MergeUpdate(tbl[n], d)
            ELSE tbl[n]]
    ELSE Append(tbl, d)

\* jira_webhook_handler (lines 45-59) up to the MERGE of handle_issue_sync:
\* an invocation receives a payload; only the two issue events are synced
WebhookReceive(h, event_type, issue) ==
    /\ hooks[h].pc = "idle"
    /\ IF event_type \in {"jira:issue_created", "jira:issue_updated"}
       THEN /\ hooks' = [hooks EXCEPT ![h] = [pc |-> "merge", ev |-> issue]]
            /\ UNCHANGED hookLast
       ELSE /\ hookLast' = [NoHookLog EXCEPT !.status = "ignored"]
            /\ UNCHANGED hooks
    /\ UNCHANGED <<issuesTbl, topic, merged>>

\* lines 123-125: the MERGE job runs as one statement of the warehouse; when
\* it raises, handle_issue_sync answers 500 (lines 133-135)
WebhookMerge(h, bqOk) ==
    /\ hooks[h].pc = "merge"
    /\ LET d == issue_data(hooks[h].ev)
           tbl == MergeIssue(issuesTbl, d)
       IN  IF bqOk
           THEN /\ Len(tbl) <= MaxRows      \* the model's bound on rows
                /\ issuesTbl' = tbl
                /\ merged' = [merged EXCEPT ![d.issue_id] = d.fields]
                /\ hooks' = [hooks EXCEPT ![h].pc = "publish"]
                /\ UNCHANGED hookLast
           ELSE /\ hookLast' = [NoHookLog EXCEPT !.status = "500"]
                /\ hooks' = [hooks EXCEPT ![h] = IdleHook]
                /\ UNCHANGED <<issuesTbl, merged>>
    /\ UNCHANGED topic

\* publish_issue_update(issue_data), lines 137-159: publish() and
\* future.result() are not guarded, so a failing publish raises to the
\* caller
publish_issue_update_quiet(d, pubOk) ==
    [raised |-> FALSE, sent |-> IF pubOk THEN {d.issue_id} ELSE {}]
publish_issue_update(d, pubOk) ==
    [raised |-> ~pubOk, sent |-> IF pubOk THEN {d.issue_id} ELSE {}]

\* lines 127-135 with publish_issue_update: publish, then answer 200; a
\* failing publish is answered 500
WebhookPublish(h, pubOk) ==
    /\ hooks[h].pc = "publish"
    /\ LET d == issue_data(hooks[h].ev)
           r == publish_issue_update(d, pubOk)
       IN  /\ topic' = topic \cup r.sent
           /\ IF ~r.raised
              THEN hookLast' = [NoHookLog EXCEPT
                                   !.status = "200",
                                   !.applied = TRUE, !.published = (r.sent # {})]
              ELSE hookLast' = [NoHookLog EXCEPT
                                   !.status = "500",
                                   !.applied = TRUE, !.published = (r.sent # {})]
    /\ hooks' = [hooks EXCEPT ![h] = IdleHook]
    /\ UNCHANGED <<issuesTbl, merged>>

\* the Requirement/Issue side at rest
TrackerAtRest ==
    /\ jira = [k \in Keys |-> Absent]
    /\ jiraNext = 1
    /\ jiraLinks = {}
    /\ last = NoRunLog
    /\ hist = Unclean
    /\ syncs = NoSyncs
    /\ sweep = NoSweep

InitUpsert == UpsertAtRest /\ LifecycleLinked /\ IntakeAtRest

NextUpsert ==
    \/ \E h \in Hooks, issue \in WebhookIssues,
          t \in {"jira:issue_created", "jira:issue_updated", "jira:issue_deleted"} :
          WebhookReceive(h, t, issue) /\ UNCHANGED <<lifecycleVars, intakeVars, redo>>
    \/ \E h \in Hooks, bqOk \in BOOLEAN :
          WebhookMerge(h, bqOk) /\ UNCHANGED <<lifecycleVars, intakeVars, redo>>
    \/ \E h \in Hooks, pubOk \in BOOLEAN :
          WebhookPublish(h, pubOk) /\ UNCHANGED <<lifecycleVars, intakeVars, redo>>

SpecUpsert == InitUpsert /\ [][NextUpsert]_vars

\* The tracker delivers its events one after another: a delivery starts
\* after the response to the previous one, and an event that was answered
\* with an error may be delivered again.
NextRedelivery ==
    \/ \E issue \in WebhookIssues,
          t \in {"jira:issue_created", "jira:issue_updated", "jira:issue_deleted"} :
          /\ WebhookReceive("h1", t, issue)
          /\ redo' = [redo EXCEPT !.inflight = /\ t # "jira:issue_deleted"
                                               /\ redo.unpublished = issue]
          /\ UNCHANGED <<lifecycleVars, intakeVars>>
    \/ \E bqOk \in BOOLEAN :
          /\ WebhookMerge("h1", bqOk)
          /\ redo' = IF bqOk THEN redo
                     ELSE [redo EXCEPT !.inflight = FALSE, !.ended = FALSE]
          /\ UNCHANGED <<lifecycleVars, intakeVars>>
    \/ \E pubOk \in BOOLEAN :
          /\ WebhookPublish("h1", pubOk)
          /\ redo' = [unpublished |-> IF pubOk /\ redo.inflight THEN NoEvent
                                      ELSE IF pubOk THEN redo.unpublished
                                      ELSE hooks["h1"].ev,
                      inflight |-> FALSE, ended |-> redo.inflight]
          /\ UNCHANGED <<lifecycleVars, intakeVars>>

SpecRedelivery == InitUpsert /\ [][NextRedelivery]_vars

----------------------------------------------------------------------------
(* Claims about the Upsert Resolver (SpecUpsert) *)

RowsOf(k) == {n \in DOMAIN issuesTbl : issuesTbl[n].issue_id = k}

\* C3: however the deliveries of events for a remote key k interleave, and
\* however often an event is delivered, the issues table holds exactly one
\* row with issue_id k once an upsert for k was applied, and that row's
\* content fields are those of the event upserted last: two deliveries of
\* the same event leave one row with that event's content.
C3_IdempotentUpsert ==
    \A k \in RemoteKeys :
        /\ Cardinality(RowsOf(k)) <= 1
        /\ merged[k] # "none" =>
              \E n \in DOMAIN issuesTbl :
                  /\ RowsOf(k) = {n}
                  /\ issuesTbl[n].fields = merged[k]

\* a warehouse row shows the content of a remote edit
RowShows(row, fields) == "fields" \in DOMAIN row /\ row.fields = fields

\* C17: once an event for the remote record k has been processed, the edit
\* it carries is visible on the local Requirement or Issue row that is
\* linked to k by its remote key.
C17_EditReflectedLocally ==
    \A k \in RemoteKeys : merged[k] # "none" =>
        /\ \A r \in ReqIds :
              (reqTbl[r] # NoRow /\ reqTbl[r].alm_id = k) => RowShows(reqTbl[r], merged[k])
        /\ \A i \in IssueIds :
              (issueTbl[i] # NoRow /\ issueTbl[i].jira_defect_key = k)
                  => RowShows(issueTbl[i], merged[k])

\* both invocations have applied the upsert of the same event, concurrently
C3_Witness ==
    /\ hooks["h1"].pc = "publish" /\ hooks["h2"].pc = "publish"
    /\ hooks["h1"].ev = hooks["h2"].ev
    /\ hooks["h1"].ev.key \in RemoteKeys
    /\ Cardinality(RowsOf(hooks["h1"].ev.key)) = 1
    /\ \A n \in RowsOf(hooks["h1"].ev.key) : issuesTbl[n].fields = hooks["h1"].ev.fields

\* the step is the MERGE of invocation h
MergeStepOf(h) == hooks[h].pc = "merge" /\ hooks'[h].pc = "publish"

\* a MERGE step leaves the row of its key with the fields of its event; a
\* row that was there keeps its place, key and created_date in every step,
\* and a row that appears carries the created_date of the event whose
\* MERGE inserted it
MergeKeepsCreated ==
    /\ \A h \in Hooks : MergeStepOf(h) =>
          \A n \in DOMAIN issuesTbl' :
              issuesTbl'[n].issue_id = hooks[h].ev.key
                  => issuesTbl'[n].fields = hooks[h].ev.fields
    /\ \A n \in DOMAIN issuesTbl :
          /\ n \in DOMAIN issuesTbl'
          /\ issuesTbl'[n].issue_id = issuesTbl[n].issue_id
          /\ issuesTbl'[n].created_date = issuesTbl[n].created_date
    /\ \A n \in DOMAIN issuesTbl' \ DOMAIN issuesTbl :
          \E h \in Hooks :
              /\ MergeStepOf(h)
              /\ issuesTbl'[n].issue_id = hooks[h].ev.key
              /\ issuesTbl'[n].created_date = parse_jira_date(hooks[h].ev.created)

\* C29: after any sequence of events processed for a remote key, the row's
\* type, title, description, priority, status, assignee and updated_date
\* are those of the event processed last, whatever the events' updated
\* timestamps, and its created_date is the one stored by the event that
\* inserted the row.
C29_LastProcessedWins ==
    /\ [](\A k \in RemoteKeys : merged[k] # "none" =>
              /\ RowsOf(k) # {}
              /\ \A n \in RowsOf(k) : issuesTbl[n].fields = merged[k])
    /\ [][MergeKeepsCreated]_vars

\* h1 merged the later edit "v2" and inserted the row; h2 then merged the
\* earlier edit "v1" of the same key with another created date: the row
\* shows "v1" and the created_date of h1's event
C29_Witness ==
    /\ hooks["h1"].pc = "publish" /\ hooks["h2"].pc = "publish"
    /\ hooks["h1"].ev.key = hooks["h2"].ev.key
    /\ UpdatedOf(hooks["h2"].ev.fields) < UpdatedOf(hooks["h1"].ev.fields)
    /\ parse_jira_date(hooks["h1"].ev.created) # parse_jira_date(hooks["h2"].ev.created)
    /\ merged[hooks["h2"].ev.key] = hooks["h2"].ev.fields
    /\ \A n \in RowsOf(hooks["h2"].ev.key) :
          /\ issuesTbl[n].fields = hooks["h2"].ev.fields
          /\ issuesTbl[n].created_date = parse_jira_date(hooks["h1"].ev.created)
    /\ RowsOf(hooks["h2"].ev.key) # {}

\* the step is the end of invocation h after its MERGE was applied
PublishStepOf(h) == hooks[h].pc = "publish" /\ hooks'[h].pc = "idle"

\* the end of an invocation answers 200 exactly when its message was
\* published, and never touches the rows: the row its MERGE wrote is there
\* whatever the answer; an invocation whose MERGE failed answers 500
EndOfSync ==
    \A h \in Hooks :
        /\ PublishStepOf(h) =>
              /\ issuesTbl' = issuesTbl
              /\ Cardinality(RowsOf(hooks[h].ev.key)) = 1
              /\ hookLast'.status \in {"200", "500"}
              /\ hookLast'.status = "200" =>
                    hookLast'.published /\ hooks[h].ev.key \in topic'
              /\ hookLast'.status = "500" =>
                    ~hookLast'.published /\ topic' = topic
        /\ (hooks[h].pc = "merge" /\ hooks'[h].pc = "idle") =>
              /\ hookLast'.status = "500" /\ ~hookLast'.applied
              /\ issuesTbl' = issuesTbl /\ topic' = topic

\* C30: handle_issue_sync answers success only after both the MERGE and
\* the publish succeeded; when the publish fails after the MERGE was
\* applied it answers an error and the merged row stays in the table, and
\* handling the same event again leaves one row for its key.
C30_SuccessNeedsBoth ==
    /\ [](/\ hookLast.status = "200" => hookLast.applied /\ hookLast.published
          /\ (hookLast.status = "500" /\ hookLast.applied) => ~hookLast.published
          /\ redo.unpublished # NoEvent =>
                Cardinality(RowsOf(redo.unpublished.key)) = 1
          /\ \A k \in RemoteKeys : Cardinality(RowsOf(k)) <= 1)
    /\ [][EndOfSync]_vars

\* an event whose publish had failed was delivered again and answered 200:
\* its key has one row, with the fields merged last
C30_Witness ==
    /\ hookLast.status = "200" /\ redo.ended
    /\ \A h \in Hooks : hooks[h].pc = "idle"
    /\ \E k \in RemoteKeys :
          /\ k \in topic
          /\ Cardinality(RowsOf(k)) = 1
          /\ \A n \in RowsOf(k) : issuesTbl[n].fields = merged[k]

----------------------------------------------------------------------------
(* backend/core/workflow.py: the outbound publisher *)

\* lines 145-146, except Exception: a failing publish() or future.result()
\* is logged, not raised
PublishRaises_uncaught(send) == send = "fail"
PublishRaises(send) == FALSE

\* publish_message(project_id, topic_name, data); send is what the transport
\* does with the message
publish_message(project_id, topic_name, data, send) ==
    IF publisher = "None"
    THEN [raised |-> "none", sent |-> {}, logged |-> TRUE]
    ELSE IF send = "ok"
    THEN [raised |-> "none", sent |-> {[topic |-> topic_name, id |-> data]},
          logged |-> FALSE]
    ELSE IF PublishRaises(send)
    THEN [raised |-> "Exception", sent |-> {}, logged |-> FALSE]
    ELSE [raised |-> "none", sent |-> {}, logged |-> TRUE]

\* publish_requirements_notification(new_req_id); project is what
\* os.getenv('GCP_PROJECT_ID') gives
publish_requirements_notification(new_req_id, project, send) ==
    IF project = "set"
    THEN publish_message(project, "requirement-updates", new_req_id, send)
    ELSE [raised |-> "none", sent |-> {}, logged |-> TRUE]

\* publish_issues_notificaiton(new_issue_id)
publish_issues_notificaiton(new_issue_id, project, send) ==
    IF project = "set"
    THEN publish_message(project, "test-failures", new_issue_id, send)
    ELSE [raised |-> "none", sent |-> {}, logged |-> TRUE]

\* the state after a call of one of the two wrappers with result r
ApplyPublish(op, id, project, send, r) ==
    /\ channel' = channel \cup r.sent
    /\ UNCHANGED <<reqTbl, tcTbl, issueTbl, complianceTbl, publisher>>
    /\ flow' = [NoFlow EXCEPT !.op = op, !.id = id, !.raised = r.raised,
                              !.http = "200", !.project = project,
                              !.send = send, !.published = r.sent,
                              !.logged = r.logged,
                              !.changed = <<reqTbl', tcTbl', issueTbl', complianceTbl'>>
                                          # <<reqTbl, tcTbl, issueTbl, complianceTbl>>]

\* api.py, GET /sync_requirements/{req_id}: the endpoint answers 200 whether
\* or not the wrapper raised
sync_requirements(req_id, project, send) ==
    ApplyPublish("publish_requirements_notification", req_id, project, send,
                 publish_requirements_notification(req_id, project, send))

\* api.py, GET /sync_issues/{issue_id}
sync_issues(issue_id, project, send) ==
    ApplyPublish("publish_issues_notificaiton", issue_id, project, send,
                 publish_issues_notificaiton(issue_id, project, send))

----------------------------------------------------------------------------
(* backend/test.py: the intake path and the materializer *)

\* compliance scores are kept in units of 1/10000
MaxScore == 10000
threshold_compliance_score == 7000
\* "compliance_score": None
NoScore == -1

\* what the compliance API does with one request: the request fails, the
\* reply has no results, the reply's first result has a status string but a
\* null score, or it has a status string and a score (just below the
\* threshold, or equal to it)
ApiReplies ==
    {[kind |-> "RequestException"], [kind |-> "no results"],
     [kind |-> "null score"]} \cup
    {[kind |-> "result", score |-> sc, status |-> "str"] :
        sc \in {threshold_compliance_score - 1, threshold_compliance_score}}

\* run_rag_compliance(testcase, regulatory_tag)
run_rag_compliance(reply) ==
    IF reply.kind = "RequestException" THEN [raised |-> "RuntimeError"]
    ELSE IF reply.kind = "no results"
    THEN [raised |-> "none", compliance_score |-> NoScore,
          compliance_status |-> "None"]
    ELSE IF reply.kind = "null score"
    THEN [raised |-> "none", compliance_score |-> NoScore,
          compliance_status |-> "str"]
    ELSE [raised |-> "none", compliance_score |-> reply.score,
          compliance_status |-> reply.status]

\* data_models.py, ComplianceResult(...): compliance_status must be a str,
\* compliance_score is None or within [0, 1]
ComplianceResultValid(raw) ==
    /\ raw.compliance_status # "None"
    /\ raw.compliance_score = NoScore
          \/ (0 <= raw.compliance_score /\ raw.compliance_score <= MaxScore)

\* line 175: if compliance_score < threshold_compliance_score
BelowThreshold(compliance_score) == compliance_score < threshold_compliance_score

\* test.py imports client from backend.bigQuery but never the name bigquery
\* that line 122 uses: the lookup raises NameError
BigqueryBound == FALSE

\* lines 115-128: the TestCase rows of req_id, ORDER BY sequence
TestCasesOf(tbl, req_id) ==
    LET mine == {t \in DOMAIN tbl : tbl[t] # NoRow /\ tbl[t].req_id = req_id}
    IN  [i \in 1..Cardinality(mine) |->
            CHOOSE t \in mine : tbl[t].sequence = i]

\* process_compliance_for_requirement(req_id, regulatory_tags) on the
\* TestCase table tbl; api[i] is the compliance API's reply for the i-th test
\* case and env names the warehouse call that fails, if one does.  The
\* result: the exception raised, the number of compliance checks that
\* returned to the loop, the rows inserted into Compliance and Issue
\* (make_issue_after_compliance), and the insert_rows_json call that
\* reported errors, if one did.
process_compliance_for_requirement(req_id, regulatory_tags, tbl, api, env) ==
    LET test_cases == TestCasesOf(tbl, req_id)
        raw(i) == run_rag_compliance(api[i])
        exc(i) == IF raw(i).raised # "none" THEN raw(i).raised
                  ELSE IF ~ComplianceResultValid(raw(i)) THEN "ValidationError"
                  ELSE IF raw(i).compliance_score = NoScore THEN "TypeError"
                  ELSE "none"
        failing == {i \in DOMAIN test_cases : exc(i) # "none"}
        rows_to_insert ==
            [i \in DOMAIN test_cases |->
                [test_id |-> test_cases[i], req_id |-> req_id,
                 regulatory_tag |-> "fda",
                 compliance_score |-> raw(i).compliance_score]]
        issue_rows == SelectSeq(rows_to_insert,
                                LAMBDA r : BelowThreshold(r.compliance_score))
        first == CHOOSE i \in failing : \A j \in failing : i <= j
        all == Len(test_cases)
        end(e, k, c, i) == [raised |-> e, evaluated |-> k, compliance |-> c,
                            issues |-> i, failed |-> "none"]
    IN  IF ~BigqueryBound THEN end("NameError", 0, <<>>, <<>>)
        ELSE IF env = "query" THEN end("GoogleAPIError", 0, <<>>, <<>>)
        ELSE IF regulatory_tags = <<>> THEN end("IndexError", 0, <<>>, <<>>)
        ELSE IF regulatory_tags[1] = "" THEN end("none", 0, <<>>, <<>>)
        ELSE IF failing # {}
        THEN end(exc(first),
                 IF raw(first).raised = "none" THEN first ELSE first - 1,
                 <<>>, <<>>)
        ELSE IF rows_to_insert = <<>> THEN end("none", 0, <<>>, <<>>)
        ELSE IF env = "insert Compliance"
        THEN [end("RuntimeError", all, <<>>, <<>>) EXCEPT !.failed = "Compliance"]
        ELSE IF issue_rows = <<>> THEN end("none", all, rows_to_insert, <<>>)
        ELSE IF env = "insert Issue"
        THEN [end("RuntimeError", all, rows_to_insert, <<>>) EXCEPT !.failed = "Issue"]
        ELSE end("none", all, rows_to_insert, issue_rows)

\* insert_requirement, lines 23-30: the row has no alm_id, the column is NULL
NewRequirementRow_keyed == [alm_id |-> 1]
NewRequirementRow == [alm_id |-> NULL]

\* the n least ids of a table that have no row: the ids uuid4 gives
FreshIds(tbl, n) ==
    LET free == {x \in DOMAIN tbl : tbl[x] = NoRow}
    IN  {x \in free : Cardinality({y \in free : y < x}) < n}

\* the i-th of a set of ids, in increasing order
Nth(ids, i) == CHOOSE x \in ids : Cardinality({y \in ids : y < x}) = i - 1

\* make_issue_after_compliance(issue_rows): the Issue table after the
\* insert of one row per issue_row, each under a new uuid4 issue_id; the
\* rows carry no jira_defect_key
make_issue_after_compliance(issue_rows) ==
    LET issue_ids == FreshIds(issueTbl, Len(issue_rows))
    IN  [i \in DOMAIN issueTbl |->
            IF i \in issue_ids
            THEN LET r == issue_rows[Cardinality({y \in issue_ids : y <= i})]
                 IN  [test_id |-> r.test_id, req_id |-> r.req_id,
                      regulatory_tag |-> r.regulatory_tag,
                      compliance_score |-> r.compliance_score,
                      jira_defect_key |-> NULL,
                      jira_defect_created_ts |-> NoStamp]
            ELSE issueTbl[i]]

\* a call of process_compliance_for_requirement(req_id, regulatory_tags) for
\* a requirement that is already in the warehouse: the materialization is
\* run again over its test cases
rematerialize(req_id, tags, api, env) ==
    /\ reqTbl[req_id] # NoRow
    /\ LET mat == process_compliance_for_requirement(req_id, tags, tcTbl, api, env)
           issue_ids == FreshIds(issueTbl, Len(mat.issues))
       IN  /\ Cardinality(issue_ids) = Len(mat.issues)   \* the model's bound on ids
           /\ complianceTbl' = complianceTbl \o mat.compliance
           /\ Len(complianceTbl') <= NumTests + NumTests  \* the model's bound on rows
           /\ issueTbl' = make_issue_after_compliance(mat.issues)
           /\ flow' = [NoFlow EXCEPT
                         !.op = "process_compliance_for_requirement",
                         !.id = req_id,
                         !.raised = mat.raised,
                         !.tests = TestCasesOf(tcTbl, req_id),
                         !.tags = tags, !.api = api, !.env = env,
                         !.mat = mat.raised,
                         !.evaluated = mat.evaluated,
                         !.failed = mat.failed,
                         !.compliance = mat.compliance,
                         !.issues = issue_ids]
    /\ UNCHANGED <<reqTbl, tcTbl, channel, publisher>>

\* the steps of generate_test_cases before the materializer
FlowSteps == <<"insert_requirement", "insert_requirement_analysis_placeholder",
               "workflow", "insert_test_cases">>
Reached(failAt, step) ==
    failAt = "none" \/
    \E i, j \in DOMAIN FlowSteps : FlowSteps[i] = failAt /\ FlowSteps[j] = step /\ j < i

\* api.py, POST /generate_test_cases with regulatory_requirements = tags: the
\* workflow produces n test cases; failAt names the step before the
\* materializer that raises, if one does.  Every exception is answered with
\* HTTP 500 (lines 89-90); nothing written before it is undone.
generate_test_cases(tags, n, failAt, api, env) ==
    /\ FreshIds(reqTbl, 1) # {}
    /\ Cardinality(FreshIds(tcTbl, n)) = n
    /\ Cardinality(FreshIds(issueTbl, n)) = n
    /\ LET req_id == Nth(FreshIds(reqTbl, 1), 1)
           test_ids == FreshIds(tcTbl, n)
           insReq == Reached(failAt, "insert_requirement")
           insTc == Reached(failAt, "insert_test_cases")
           tbl == IF insTc
                  THEN [t \in DOMAIN tcTbl |->
                          IF t \in test_ids
                          THEN [req_id |-> req_id,
                                sequence |-> Cardinality({y \in test_ids : y <= t})]
                          ELSE tcTbl[t]]
                  ELSE tcTbl
           mat == IF insTc
                  THEN process_compliance_for_requirement(req_id, tags, tbl, api, env)
                  ELSE [raised |-> failAt, evaluated |-> 0, compliance |-> <<>>,
                        issues |-> <<>>, failed |-> "none"]
           issue_ids == FreshIds(issueTbl, Len(mat.issues))
       IN  /\ reqTbl' = IF insReq THEN [reqTbl EXCEPT ![req_id] = NewRequirementRow]
                        ELSE reqTbl
           /\ tcTbl' = tbl
           /\ complianceTbl' = complianceTbl \o mat.compliance
           /\ issueTbl' = make_issue_after_compliance(mat.issues)
           /\ flow' = [NoFlow EXCEPT
                         !.op = "generate_test_cases",
                         !.raised = mat.raised,
                         !.http = IF mat.raised = "none" THEN "200" ELSE "500",
                         !.req_id = IF insReq THEN req_id ELSE NULL,
                         !.tests = IF insTc THEN TestCasesOf(tbl, req_id) ELSE <<>>,
                         !.tags = tags, !.api = api, !.env = env,
                         !.mat = IF insTc THEN mat.raised ELSE "not called",
                         !.evaluated = mat.evaluated,
                         !.failed = mat.failed,
                         !.compliance = mat.compliance,
                         !.issues = issue_ids]
    /\ UNCHANGED <<channel, publisher>>

----------------------------------------------------------------------------
(* Specifications of the backend.  SpecIntake: requirements are submitted, *)
(* one call at a time, to an empty warehouse.  SpecPublisher: the two sync  *)
(* endpoints are called, one call at a time, over a seeded warehouse.       *)

\* regulatory_requirements of a request: none, an empty first tag, one tag
TagLists == {<<>>, <<"">>, <<"HIPAA">>}

\* ids a caller may pass to the sync endpoints
PathIds == ReqIds \cup IssueIds \cup {GhostId}

\* the reply that stands for a compliance check the loop does not make
UnaskedReply == [kind |-> "result", score |-> threshold_compliance_score,
                 status |-> "str"]

\* the compliance check gives a result with a score
Answered(reply) == reply.kind = "result"

\* what the environment can do to one materialization over n test cases.
\* Only the calls the run makes have an outcome: the loop (lines 137-183)
\* stops at the first check without a scored result, so the checks after
\* it get UnaskedReply; the inserts follow a loop that completed; and a
\* failing query precedes every check.
RunOutcomes(n) ==
    LET replies == {a \in [1..n -> ApiReplies] :
                      \A i, j \in 1..n :
                          (i < j /\ ~Answered(a[i])) => a[j] = UnaskedReply}
        answered == {a \in replies : \A i \in 1..n : Answered(a[i])}
    IN  {[api |-> a, env |-> "ok"] : a \in replies}
        \cup {[api |-> [i \in 1..n |-> UnaskedReply], env |-> "query"]}
        \cup {[api |-> a, env |-> e] :
                 a \in answered, e \in {"insert Compliance", "insert Issue"}}

\* what the environment can do to one generate_test_cases call with n test
\* cases: one step before the materializer fails, or none does and the
\* compliance API and the warehouse answer the materializer
FlowOutcomes(n) ==
    {[failAt |-> FlowSteps[i], api |-> <<>>, env |-> "ok"] : i \in DOMAIN FlowSteps}
    \cup {[failAt |-> "none", api |-> o.api, env |-> o.env] : o \in RunOutcomes(n)}

InitIntake ==
    /\ reqTbl = [r \in ReqIds |-> NoRow]
    /\ tcTbl = [t \in NewTestIds |-> NoRow]
    /\ issueTbl = [i \in NewIssueIds |-> NoRow]
    /\ TrackerAtRest
    /\ UpsertAtRest
    /\ IntakeAtRest

SubmitRequirement ==
    \E tags \in TagLists, n \in 1..NumTests : \E o \in FlowOutcomes(n) :
        generate_test_cases(tags, n, o.failAt, o.api, o.env)

SyncRequirement ==
    \E id \in PathIds, project \in {"set", "unset"}, send \in {"ok", "fail"} :
        sync_requirements(id, project, send)

SyncIssue ==
    \E id \in PathIds, project \in {"set", "unset"}, send \in {"ok", "fail"} :
        sync_issues(id, project, send)

Rematerialize ==
    \E req_id \in ReqIds, tags \in TagLists :
        \E o \in RunOutcomes(Len(TestCasesOf(tcTbl, req_id))) :
            rematerialize(req_id, tags, o.api, o.env)

NextIntake ==
    \/ SubmitRequirement /\ UNCHANGED <<trackerVars, upsertVars>>
    \/ Rematerialize /\ UNCHANGED <<trackerVars, upsertVars>>

SpecIntake == InitIntake /\ [][NextIntake]_vars

\* the publisher client is created at import (workflow.py lines 26-30) or,
\* when that fails, is None
InitPublisher ==
    /\ WarehouseSeeded
    /\ TrackerAtRest
    /\ UpsertAtRest
    /\ complianceTbl = <<>>
    /\ publisher \in {"PublisherClient", "None"}
    /\ channel = {}
    /\ flow = NoFlow

NextPublisher ==
    \/ SyncRequirement /\ UNCHANGED <<trackerVars, upsertVars>>
    \/ SyncIssue /\ UNCHANGED <<trackerVars, upsertVars>>

SpecPublisher == InitPublisher /\ [][NextPublisher]_vars

----------------------------------------------------------------------------
(* Claims about the intake path and the materializer (SpecIntake) *)

\* the last call was a generate_test_cases that reached the materializer
MaterializerRan == flow.op = "generate_test_cases" /\ flow.mat # "not called"

\* the request named a regulatory tag, so that the pairs (test case, "fda")
\* are the ones to evaluate
TagGiven == flow.tags # <<>> /\ flow.tags[1] # ""

\* the Compliance and Issue rows the last run wrote for a test case
ComplianceOf(t) == {n \in DOMAIN flow.compliance : flow.compliance[n].test_id = t}
IssuesOf(t, tag) ==
    {i \in flow.issues : issueTbl[i].test_id = t /\ issueTbl[i].regulatory_tag = tag}

C5_FaultIsolation ==
    (/\ MaterializerRan /\ TagGiven /\ flow.env = "ok"
     /\ \E i \in DOMAIN flow.api : flow.api[i].kind = "RequestException"
     /\ \A i \in DOMAIN flow.api : flow.api[i].kind \in {"RequestException", "result"})
    => /\ flow.mat = "none"
       /\ \A i \in DOMAIN flow.tests :
            flow.api[i].kind = "result" =>
               /\ Cardinality(ComplianceOf(flow.tests[i])) = 1
               /\ flow.api[i].score < threshold_compliance_score =>
                     IssuesOf(flow.tests[i], "fda") # {}

\* C9: the Requirement row that a generate_test_cases call wrote, and every
\* Issue row its materializer wrote, is named by a message that the same
\* call published to the channel.
C9_PublishFollowsCreation ==
    flow.op = "generate_test_cases" =>
        /\ flow.req_id # NULL =>
              [topic |-> "requirement-updates", id |-> flow.req_id] \in channel
        /\ \A i \in flow.issues : [topic |-> "test-failures", id |-> i] \in channel

\* the compliance check gave no score for the i-th test case of the run
MissingScore(i) == flow.api[i].kind \in {"no results", "null score"}

\* C11: when the compliance check returns no score for a test case, the
\* run does not fail: the score counts as 0.0, the test case gets its
\* Compliance row with that score and (0.0 being below the threshold) an
\* Issue row, and every other test case of the batch gets its Compliance
\* row too.
C11_MissingScoreAsZero ==
    (/\ MaterializerRan /\ TagGiven /\ flow.env = "ok"
     /\ \E i \in DOMAIN flow.api : MissingScore(i)
     /\ \A i \in DOMAIN flow.api : MissingScore(i) \/ flow.api[i].kind = "result")
    => /\ flow.mat = "none"
       /\ \A i \in DOMAIN flow.tests :
            /\ Cardinality(ComplianceOf(flow.tests[i])) = 1
            /\ MissingScore(i) =>
                  /\ \A n \in ComplianceOf(flow.tests[i]) :
                        flow.compliance[n].compliance_score = 0
                  /\ IssuesOf(flow.tests[i], "fda") # {}

\* the warehouse answered every call of the last run and the compliance
\* check returned a valid score for every test case
AllAnswered ==
    /\ flow.env = "ok"
    /\ \A i \in DOMAIN flow.api : flow.api[i].kind = "result"

C19_TagRecorded ==
    (MaterializerRan /\ TagGiven /\ AllAnswered) =>
        /\ flow.mat = "none"
        /\ Len(flow.compliance) = Len(flow.tests)
        /\ \A n \in DOMAIN flow.compliance :
              flow.compliance[n].regulatory_tag = flow.tags[1]
        /\ \A i \in flow.issues : issueTbl[i].regulatory_tag = flow.tags[1]

\* the Compliance and Issue rows of a test case in the warehouse
ComplianceRowsOf(tbl, t) == {n \in DOMAIN tbl : tbl[n].test_id = t}
IssueRowsOf(tbl, t) == {i \in DOMAIN tbl : tbl[i] # NoRow /\ tbl[i].test_id = t}

\* the step is a materialization run again for a tagged requirement that is
\* in the warehouse, in which every collaborator answers
RerunStep ==
    /\ flow'.op = "process_compliance_for_requirement"
    /\ TagGiven' /\ AllAnswered'

\* C20: no step changes or removes a Compliance row that exists; and
\* running the materialization again for a requirement adds one more
\* Compliance row for each of its test cases and, for each one whose score
\* is below the threshold, one more Issue row, while every Issue row that
\* existed stays as it was.
C20_AppendOnly ==
    [][/\ Len(complianceTbl) <= Len(complianceTbl')
       /\ SubSeq(complianceTbl', 1, Len(complianceTbl)) = complianceTbl
       /\ RerunStep =>
             /\ \A n \in DOMAIN flow'.tests :
                   LET t == flow'.tests[n]
                   IN  /\ Cardinality(ComplianceRowsOf(complianceTbl', t)) =
                             Cardinality(ComplianceRowsOf(complianceTbl, t)) + 1
                       /\ flow'.api[n].score < threshold_compliance_score =>
                             Cardinality(IssueRowsOf(issueTbl', t)) =
                                Cardinality(IssueRowsOf(issueTbl, t)) + 1
             /\ \A i \in DOMAIN issueTbl :
                   issueTbl[i] # NoRow => issueTbl'[i] = issueTbl[i]]_vars

\* an insert_rows_json call of the last materialization run reported errors
InsertFailedRun ==
    /\ flow.op \in {"generate_test_cases", "process_compliance_for_requirement"}
    /\ flow.failed # "none"

\* the Compliance rows the last run wrote are the last rows of the table
ComplianceKept ==
    /\ Len(flow.compliance) <= Len(complianceTbl)
    /\ SubSeq(complianceTbl, Len(complianceTbl) - Len(flow.compliance) + 1,
              Len(complianceTbl)) = flow.compliance

\* C21: when a warehouse insert of a materialization run fails, the run
\* raises to its caller and what the call wrote before stays: when the
\* Issue insert fails, the run's Compliance rows (one per test case) are in
\* the table and no Issue row is written; when the Compliance insert fails,
\* neither a Compliance row nor an Issue row is written.
C21_InsertFailureSurfaces ==
    InsertFailedRun =>
        /\ flow.raised = "RuntimeError"
        /\ flow.op = "generate_test_cases" =>
              /\ flow.http = "500"
              /\ reqTbl[flow.req_id] # NoRow
              /\ \A n \in DOMAIN flow.tests : tcTbl[flow.tests[n]] # NoRow
        /\ flow.issues = {}
        /\ flow.failed = "Compliance" => flow.compliance = <<>>
        /\ flow.failed = "Issue" =>
              /\ Len(flow.compliance) = Len(flow.tests)
              /\ ComplianceKept

\* the Issue insert of a run failed after its Compliance rows were written
C21_Witness ==
    /\ InsertFailedRun
    /\ flow.failed = "Issue"
    /\ flow.compliance # <<>> /\ ComplianceKept

\* a step leaves the remote key of every existing Requirement / Issue row
\* as it is, and a row it creates has a null remote key
ReqKeyKept ==
    \A r \in DOMAIN reqTbl :
        IF reqTbl[r] = NoRow
        THEN reqTbl'[r] # NoRow => reqTbl'[r].alm_id = NULL
        ELSE reqTbl'[r] # NoRow /\ reqTbl'[r].alm_id = reqTbl[r].alm_id
IssueKeyKept ==
    \A i \in DOMAIN issueTbl :
        IF issueTbl[i] = NoRow
        THEN issueTbl'[i] # NoRow => issueTbl'[i].jira_defect_key = NULL
        ELSE /\ issueTbl'[i] # NoRow
             /\ issueTbl'[i].jira_defect_key = issueTbl[i].jira_defect_key

\* C16: every step of the intake path and the materializer (and likewise
\* of the publisher and of the Upsert Resolver, under their specifications)
\* creates Requirement and Issue rows with a null remote key and leaves the
\* remote key of every existing row unchanged: only the Remote Reference
\* Lifecycle writes it.
C16_SingleWriter == [][ReqKeyKept /\ IssueKeyKept]_vars

\* a request has just written a new Requirement row
C16_Witness ==
    /\ flow.op = "generate_test_cases"
    /\ flow.req_id # NULL
    /\ reqTbl[flow.req_id] # NoRow
    /\ reqTbl[flow.req_id].alm_id = NULL

----------------------------------------------------------------------------
(* Claims about the publisher (SpecPublisher) *)

RanPublish ==
    flow.op \in {"publish_requirements_notification", "publish_issues_notificaiton"}

\* the message could not be handed to the transport
PublishThwarted ==
    publisher = "None" \/ flow.project = "unset" \/ flow.send = "fail"

\* C10: a call of publish_requirements_notification or
\* publish_issues_notificaiton never raises to its caller and leaves the
\* warehouse tables as they were; when the publisher client is missing, the
\* project id is unset or the transport fails, it logs, publishes nothing
\* and returns.
C10_PublishBestEffort ==
    RanPublish =>
        /\ flow.raised = "none"
        /\ ~flow.changed
        /\ PublishThwarted => flow.logged /\ flow.published = {}

\* a call with a client and a project id whose transport send failed
C10_Witness ==
    /\ RanPublish
    /\ publisher = "PublisherClient" /\ flow.project = "set" /\ flow.send = "fail"
    /\ flow.raised = "none" /\ flow.logged
    /\ \A r \in ReqIds : reqTbl[r] # NoRow

====
